---- MODULE Spec2Model ----
(***************************************************************************)
(* A model of the fredbi/uri package: the decomposer (parse and            *)
(* parseAuthority), the per-component validators, the percent-decoder,     *)
(* the rendering (String) and the builder methods (With...).               *)
(*                                                                         *)
(* A Go string is modelled as a sequence of one-character strings; the     *)
(* inputs are printable ASCII, so one character is one byte and one rune.  *)
(* Indices are those of the Go code (0-based); Slice(s, i, j) is s[i:j].   *)
(* An error is modelled as the set of sentinel kinds that errors.Is        *)
(* matches on it; the empty set is the nil error.                          *)
(***************************************************************************)
EXTENDS Integers, Sequences, FiniteSets, TLC

(***************************************************************************)
(* Strings and characters                                                  *)
(***************************************************************************)

\* the printable ASCII characters, in code order from 0x20
\* (the grave accent 0x60, which a TLA+ string cannot hold, is written "GRAVE")
Printable ==
    << " ", "!", "\"", "#", "$", "%", "&", "'", "(", ")", "*", "+", ",", "-", ".", "/",
       "0", "1", "2", "3", "4", "5", "6", "7", "8", "9", ":", ";", "<", "=", ">", "?",
       "@", "A", "B", "C", "D", "E", "F", "G", "H", "I", "J", "K", "L", "M", "N", "O",
       "P", "Q", "R", "S", "T", "U", "V", "W", "X", "Y", "Z", "[", "\\", "]", "^", "_",
       "GRAVE", "a", "b", "c", "d", "e", "f", "g", "h", "i", "j", "k", "l", "m", "n", "o",
       "p", "q", "r", "s", "t", "u", "v", "w", "x", "y", "z", "{", "|", "}", "~" >>

PrintableSet == { Printable[i] : i \in 1..Len(Printable) }

\* the code of a character (its byte, and its rune)
OrdTable == [ c \in PrintableSet |-> 31 + (CHOOSE i \in 1..Len(Printable) : Printable[i] = c) ]

Ord(c) == OrdTable[c]

\* s[i:j] and s[i:] of Go, with 0-based i and exclusive j
Slice(s, i, j) == SubSeq(s, i + 1, j)

SliceFrom(s, i) == SubSeq(s, i + 1, Len(s))

\* s[i] of Go
At(s, i) == s[i + 1]

\* strings.IndexByte: the 0-based index of the first c in s, or -1
IndexByte(s, c) ==
    IF \E i \in 1..Len(s) : s[i] = c
    THEN (CHOOSE i \in 1..Len(s) : s[i] = c /\ \A j \in 1..(i - 1) : s[j] # c) - 1
    ELSE -1

\* strings.HasPrefix
HasPrefix(s, p) == Len(s) >= Len(p) /\ SubSeq(s, 1, Len(p)) = p

\* char and string literals
colonMark == ":"

questionMark == "?"

fragmentMark == "#"

percentMark == "%"

atHost == "@"

slashMark == "/"

openingBracketMark == "["

closingBracketMark == "]"

dotSeparator == "."

authorityPrefix == << "/", "/" >>

\* DNS name constants
maxSegmentLength == 63

maxDomainLength == 255

\* utf8.RuneError, utf8.UTFMax
RuneError == 65533

\* predefined sets of accepted runes beyond the "unreserved" character set
pcharExtraRunes == { Ord(colonMark), Ord(atHost) }

queryOrFragmentExtraRunes == pcharExtraRunes \cup { Ord(slashMark), Ord(questionMark) }

userInfoExtraRunes == pcharExtraRunes \cup { Ord(colonMark) }

(***************************************************************************)
(* Errors: the sentinel kinds                                              *)
(***************************************************************************)

ErrInvalidURI == "ErrInvalidURI"

ErrNoSchemeFound == "ErrNoSchemeFound"

ErrInvalidScheme == "ErrInvalidScheme"

ErrInvalidHost == "ErrInvalidHost"

ErrInvalidDNSName == "ErrInvalidDNSName"

ErrInvalidRegisteredName == "ErrInvalidRegisteredName"

ErrInvalidHostAddress == "ErrInvalidHostAddress"

ErrInvalidPort == "ErrInvalidPort"

ErrMissingHost == "ErrMissingHost"

ErrInvalidPath == "ErrInvalidPath"

ErrInvalidQuery == "ErrInvalidQuery"

ErrInvalidFragment == "ErrInvalidFragment"

ErrInvalidUserInfo == "ErrInvalidUserInfo"

ErrInvalidEscaping == "ErrInvalidEscaping"

\* the nil error
nil == {}

\* an error built with fmt.Errorf: non-nil, and it matches no sentinel
cause == { "cause" }

\* the kinds that errors.Is matches on a joined error are those of its parts

errorsJoin(a, b) == a \cup b

\* if err != nil { return errorsJoin(kind, err) }; return nil
joinIfErr(kind, err) == IF err # nil THEN errorsJoin({ kind }, err) ELSE nil

(***************************************************************************)
(* Character classifiers (decode.go)                                       *)
(***************************************************************************)

isDigit(r) == r >= Ord("0") /\ r <= Ord("9")

isNotDigit(r) == r < Ord("0") \/ r > Ord("9")

isASCIILetter(c) == (Ord("a") <= c /\ c <= Ord("z")) \/ (Ord("A") <= c /\ c <= Ord("Z"))

isHex(c) ==
    \/ isDigit(c)
    \/ (Ord("a") <= c /\ c <= Ord("f"))
    \/ (Ord("A") <= c /\ c <= Ord("F"))

unhex(c) ==
    CASE Ord("0") <= c /\ c <= Ord("9") -> c - Ord("0")
      [] Ord("a") <= c /\ c <= Ord("f") -> c - Ord("a") + 10
      [] Ord("A") <= c /\ c <= Ord("F") -> c - Ord("A") + 10
      [] OTHER -> 0

\* strings.IndexFunc(input, isNotDigit) == -1
isNumerical(input) == \A i \in 1..Len(input) : ~isNotDigit(Ord(input[i]))

\* unicode.IsLetter, exact up to U+024F (ASCII, Latin-1, Latin Extended-A and -B)
\* and on the planes beyond U+FFFF as far as the ideographs U+20000..U+2A6DF go;
\* the letters of the model's inputs and of their escapes are among those
unicodeIsLetter(r) ==
    \/ isASCIILetter(r)
    \/ r \in { 170, 181, 186 }
    \/ (192 <= r /\ r <= 591 /\ r \notin { 215, 247 })
    \/ (131072 <= r /\ r <= 173791)

\* unicode.IsDigit, exact up to U+024F
unicodeIsDigit(r) == isDigit(r)

\* the ucschar ranges of RFC 3987
isUcsChar(r) ==
    \/ (160 <= r /\ r <= 55295)
    \/ (63744 <= r /\ r <= 64975)
    \/ (65008 <= r /\ r <= 65519)
    \/ \E k \in 1..13 : (k * 65536 <= r /\ r <= k * 65536 + 65533)
    \/ (921600 <= r /\ r <= 983037)

(***************************************************************************)
(* UTF-8 decoding of the escaped bytes (utf8.DecodeRune)                   *)
(***************************************************************************)

\* a continuation byte 10xxxxxx
isCont(b) == 128 <= b /\ b <= 191

\* utf8.DecodeRune(p) for 1 to 4 bytes: the first rune of p, or RuneError when
\* p does not start with a well-formed (shortest-form, non-surrogate) encoding
DecodeRune(p) ==
    LET n == Len(p)
        b0 == p[1]
    IN  CASE b0 < 128 -> b0
          [] 194 <= b0 /\ b0 <= 223 ->
                IF n >= 2 /\ isCont(p[2])
                THEN (b0 - 192) * 64 + (p[2] - 128)
                ELSE RuneError
          [] 224 <= b0 /\ b0 <= 239 ->
                IF /\ n >= 3
                   /\ isCont(p[2])
                   /\ isCont(p[3])
                   /\ (b0 = 224 => p[2] >= 160)
                   /\ (b0 = 237 => p[2] <= 159)
                THEN (b0 - 224) * 4096 + (p[2] - 128) * 64 + (p[3] - 128)
                ELSE RuneError
          [] 240 <= b0 /\ b0 <= 244 ->
                IF /\ n >= 4
                   /\ isCont(p[2])
                   /\ isCont(p[3])
                   /\ isCont(p[4])
                   /\ (b0 = 240 => p[2] >= 144)
                   /\ (b0 = 244 => p[2] <= 143)
                THEN (b0 - 240) * 262144 + (p[2] - 128) * 4096 + (p[3] - 128) * 64 + (p[4] - 128)
                ELSE RuneError
          [] OTHER -> RuneError

(***************************************************************************)
(* Percent-decoder (decode.go)                                             *)
(***************************************************************************)

\* unescapeSequence without the check of the hex digits
unescapeSequenceLax(escapeSequence) ==
    IF Len(escapeSequence) < 2
    THEN [b |-> 0, err |-> cause]
    ELSE [b |-> unhex(Ord(At(escapeSequence, 0))) * 16 + unhex(Ord(At(escapeSequence, 1))),
          err |-> nil]

\* unescapeSequence: the byte of two hex digits; [b, err]
unescapeSequence(escapeSequence) ==
    IF Len(escapeSequence) < 2
    THEN [b |-> 0, err |-> cause]
    ELSE IF ~isHex(Ord(At(escapeSequence, 0))) \/ ~isHex(Ord(At(escapeSequence, 1)))
         THEN [b |-> 0, err |-> cause]
         ELSE [b |-> unhex(Ord(At(escapeSequence, 0))) * 16 + unhex(Ord(At(escapeSequence, 1))),
               err |-> nil]

\* the failure results of unescapePercentEncoding
unescapeFail(r) == [rune |-> r, offset |-> 0, err |-> cause]

\* the final step of unescapePercentEncoding, given the rune decoded from the
\* collected code point
unescapedResult(unescapedRune, offset) ==
    IF unescapedRune = RuneError
    THEN unescapeFail(RuneError)
    ELSE [rune |-> unescapedRune, offset |-> offset, err |-> nil]

unescapeDecode(codePoint, offset) == unescapedResult(DecodeRune(codePoint), offset)

\* the outcome of the unescapeSequence that follows a '%': [ok, r, b]
escapedByte(e) ==
    IF e.err # nil
    THEN [ok |-> FALSE, r |-> RuneError, b |-> 0]
    ELSE [ok |-> TRUE, r |-> 0, b |-> e.b]

\* one more "%HH" group expected at s[offset:]: [ok, r, b], r the failure rune
nextEscaped(s, offset) ==
    IF offset >= Len(s)
    THEN [ok |-> FALSE, r |-> 0, b |-> 0]
    ELSE IF At(s, offset) # "%"
         THEN [ok |-> FALSE, r |-> 0, b |-> 0]
         ELSE escapedByte(unescapeSequence(SliceFrom(s, offset + 1)))

\* the body of unescapePercentEncoding, given the outcomes e0 to e3 of the
\* unescapeSequence calls it makes at the offsets 0, 3, 6 and 9
unescapeBytes(e0, e1, e2, e3) ==
    IF e0.err # nil THEN unescapeFail(RuneError)
    ELSE IF e0.b < 192 THEN unescapeDecode(<< e0.b >>, 2)
    ELSE IF ~e1.ok THEN unescapeFail(e1.r)
    ELSE IF e0.b < 224 THEN unescapeDecode(<< e0.b, e1.b >>, 5)
    ELSE IF ~e2.ok THEN unescapeFail(e2.r)
    ELSE IF e0.b < 240 THEN unescapeDecode(<< e0.b, e1.b, e2.b >>, 8)
    ELSE IF ~e3.ok THEN unescapeFail(e3.r)
    ELSE unescapeDecode(<< e0.b, e1.b, e2.b, e3.b >>, 11)

\* unescapePercentEncoding(s), s positioned after an opening '%':
\* [rune, offset, err], offset the number of bytes of s consumed
unescapePercentEncoding(s) ==
    unescapeBytes(unescapeSequence(s), nextEscaped(s, 2), nextEscaped(s, 5), nextEscaped(s, 8))

(***************************************************************************)
(* Generic component validator (decode.go)                                 *)
(***************************************************************************)

\* unreserved, iunreserved and sub-delims: the runes accepted in every component
isUnreservedOrSubDelims(r) ==
    \/ unicodeIsLetter(r)
    \/ unicodeIsDigit(r)
    \/ r \in { Ord("-"), Ord("."), Ord("_"), Ord("~") }
    \/ isUcsChar(r)
    \/ r \in { Ord("!"), Ord("$"), Ord("&"), Ord("'"), Ord("("), Ord(")"),
               Ord("*"), Ord("+"), Ord(","), Ord(";"), Ord("=") }

RECURSIVE validateFrom(_, _, _)
\* after a '%' at s[j-1], given the outcome esc of unescapePercentEncoding(s[j:])
validateEscapeAt(s, j, acceptedRunes, esc) ==
    IF esc.err # nil
    THEN errorsJoin({ ErrInvalidEscaping }, esc.err)
    ELSE validateFrom(s, j + esc.offset, acceptedRunes)

\* one turn of the loop of validateUnreservedWithExtra, on the rune r of s[i]
validateRuneAt(s, i, acceptedRunes, r) ==
    IF r = RuneError THEN errorsJoin({ ErrInvalidEscaping }, cause)
    ELSE IF At(s, i) = percentMark
    THEN IF i + 1 >= Len(s)
         THEN errorsJoin({ ErrInvalidEscaping }, cause)
         ELSE validateEscapeAt(s, i + 1, acceptedRunes,
                               unescapePercentEncoding(SliceFrom(s, i + 1)))
    ELSE IF ~isUnreservedOrSubDelims(r) /\ r \notin acceptedRunes
         THEN cause
         ELSE validateFrom(s, i + 1, acceptedRunes)

\* the loop of validateUnreservedWithExtra, from index i
validateFrom(s, i, acceptedRunes) ==
    IF i >= Len(s) THEN nil ELSE validateRuneAt(s, i, acceptedRunes, Ord(At(s, i)))

validateUnreservedWithExtra(s, acceptedRunes) == validateFrom(s, 0, acceptedRunes)

(***************************************************************************)
(* IP validators.  The file that defines validateIPv4, validateIPv6 and    *)
(* validateIPvFuture is not part of the sources at hand: they are modelled *)
(* from sections 4.5 and 4.6 of the specification.                         *)
(***************************************************************************)

RECURSIVE Split(_, _)
\* the parts of s between the occurrences of the character c
Split(s, c) ==
    LET i == IndexByte(s, c)
    IN  IF i < 0 THEN << s >>
        ELSE << Slice(s, 0, i) >> \o Split(SliceFrom(s, i + 1), c)

RECURSIVE DecimalValue(_)
\* the value of a string of decimal digits
DecimalValue(s) ==
    IF Len(s) = 0 THEN 0
    ELSE DecimalValue(Slice(s, 0, Len(s) - 1)) * 10 + (Ord(At(s, Len(s) - 1)) - Ord("0"))

\* one octet of a strict dotted quad
isIPv4Octet(o) ==
    /\ Len(o) >= 1
    /\ Len(o) <= 3
    /\ isNumerical(o)
    /\ (Len(o) > 1 => At(o, 0) # "0")
    /\ DecimalValue(o) <= 255

\* validateIPv4: nil for a strict dotted quad
validateIPv4(host) ==
    LET parts == Split(host, ".")
    IN  IF Len(parts) = 4 /\ \A k \in 1..4 : isIPv4Octet(parts[k])
        THEN nil
        ELSE cause

\* a group of 1 to 4 hex digits
isHexGroup(g) == Len(g) >= 1 /\ Len(g) <= 4 /\ \A k \in 1..Len(g) : isHex(Ord(g[k]))

\* a list of ':'-separated groups, the last of which may be a dotted quad;
\* its length in 16-bit groups, or -1 when it is ill-formed ("" is empty: 0)
groupCount(s, lastMayBeIPv4) ==
    IF Len(s) = 0 THEN 0
    ELSE LET gs == Split(s, ":")
             n == Len(gs)
             tailIsIPv4 == lastMayBeIPv4 /\ validateIPv4(gs[n]) = nil
         IN  IF /\ \A k \in 1..(n - 1) : isHexGroup(gs[k])
                /\ (tailIsIPv4 \/ isHexGroup(gs[n]))
             THEN IF tailIsIPv4 THEN n + 1 ELSE n
             ELSE -1

\* the index of the first "::" in s, or -1
indexElision(s) ==
    IF \E i \in 0..(Len(s) - 2) : At(s, i) = ":" /\ At(s, i + 1) = ":"
    THEN CHOOSE i \in 0..(Len(s) - 2) :
            /\ At(s, i) = ":" /\ At(s, i + 1) = ":"
            /\ \A j \in 0..(i - 1) : ~(At(s, j) = ":" /\ At(s, j + 1) = ":")
    ELSE -1

\* an IPv6 address literal: 8 groups, or fewer around exactly one "::"
isIPv6Address(s) ==
    LET e == indexElision(s)
    IN  IF e < 0 THEN groupCount(s, TRUE) = 8
        ELSE LET left == groupCount(Slice(s, 0, e), FALSE)
                 right == groupCount(SliceFrom(s, e + 2), TRUE)
             IN  left >= 0 /\ right >= 0 /\ left + right <= 7

\* the index of the first '%' in s, or -1
indexZone(s) == IndexByte(s, "%")

\* unreserved: ALPHA / DIGIT / "-" / "." / "_" / "~"
isUnreservedASCII(r) ==
    isASCIILetter(r) \/ isDigit(r) \/ r \in { Ord("-"), Ord("."), Ord("_"), Ord("~") }

RECURSIVE isZoneFrom(_, _)
\* after a '%' at z[i-1], given the outcome esc of the percent-decoder on z[i:]
isZoneEscape(z, i, esc) ==
    esc.err = nil /\ isUnreservedASCII(esc.rune) /\ isZoneFrom(z, i + esc.offset)

\* a zone identifier: unreserved characters or escapes of unreserved characters
isZoneFrom(z, i) ==
    IF i >= Len(z) THEN TRUE
    ELSE IF At(z, i) = "%"
         THEN isZoneEscape(z, i + 1, unescapePercentEncoding(SliceFrom(z, i + 1)))
         ELSE isUnreservedASCII(Ord(At(z, i))) /\ isZoneFrom(z, i + 1)

\* validateIPv6: the address, then an optional zone introduced by "%25"
validateIPv6(host) ==
    LET z == indexZone(host)
    IN  IF z < 0
        THEN IF isIPv6Address(host) THEN nil ELSE { ErrInvalidHostAddress }
        ELSE IF /\ HasPrefix(SliceFrom(host, z), << "%", "2", "5" >>)
                /\ isIPv6Address(Slice(host, 0, z))
                /\ Len(host) > z + 3
                /\ isZoneFrom(SliceFrom(host, z + 3), 0)
             THEN nil
             ELSE { ErrInvalidHostAddress }

\* validateIPvFuture, given the literal after its 'v': HEXDIG+ "." then one or
\* more of unreserved / sub-delims / ":"
validateIPvFuture(address) ==
    LET dot == IndexByte(address, ".")
    IN  IF /\ dot >= 1
           /\ \A k \in 0..(dot - 1) : isHex(Ord(At(address, k)))
           /\ Len(address) > dot + 1
           /\ \A k \in (dot + 1)..(Len(address) - 1) :
                 LET r == Ord(At(address, k))
                 IN  r < 128 /\ (isUnreservedOrSubDelims(r) \/ r = Ord(":"))
        THEN nil
        ELSE cause

(***************************************************************************)
(* DNS host validator (dns.go)                                             *)
(***************************************************************************)

\* the schemes for which UsesDNSHostValidation returns true
dnsSchemes ==
    { << "h", "t", "t", "p", "s" >>,
      << "h", "t", "t", "p" >>,
      << "f", "i", "l", "e" >>,
      << "a", "a", "a" >>,
      << "a", "a", "a", "s" >>,
      << "a", "c", "a", "p" >>,
      << "a", "c", "c", "t" >>,
      << "c", "a", "p" >>,
      << "c", "i", "d" >>,
      << "c", "o", "a", "p" >>,
      << "c", "o", "a", "p", "s" >>,
      << "c", "o", "a", "p", "+", "t", "c", "p" >>,
      << "c", "o", "a", "p", "+", "w", "s" >>,
      << "c", "o", "a", "p", "s", "+", "t", "c", "p" >>,
      << "c", "o", "a", "p", "s", "+", "w", "s" >>,
      << "d", "a", "v" >>,
      << "d", "i", "c", "t" >>,
      << "d", "n", "s" >>,
      << "d", "n", "t", "p" >>,
      << "f", "i", "n", "g", "e", "r" >>,
      << "f", "t", "p" >>,
      << "g", "i", "t" >>,
      << "g", "o", "p", "h", "e", "r" >>,
      << "h", "3", "2", "3" >>,
      << "i", "a", "x" >>,
      << "i", "c", "a", "p" >>,
      << "i", "m" >>,
      << "i", "m", "a", "p" >>,
      << "i", "p", "p" >>,
      << "i", "p", "p", "s" >>,
      << "i", "r", "c" >>,
      << "i", "r", "c", "6" >>,
      << "i", "r", "c", "s" >>,
      << "j", "m", "s" >>,
      << "l", "d", "a", "p" >>,
      << "m", "a", "i", "l", "t", "o" >>,
      << "m", "i", "d" >>,
      << "m", "s", "r", "p" >>,
      << "m", "s", "r", "p", "s" >>,
      << "n", "f", "s" >>,
      << "n", "n", "t", "p" >>,
      << "n", "t", "p" >>,
      << "p", "o", "s", "t", "g", "r", "e", "s", "q", "l" >>,
      << "r", "a", "d", "i", "u", "s" >>,
      << "r", "e", "d", "i", "s" >>,
      << "r", "m", "i" >>,
      << "r", "t", "s", "p" >>,
      << "r", "t", "s", "p", "s" >>,
      << "r", "t", "s", "p", "u" >>,
      << "r", "s", "y", "n", "c" >>,
      << "s", "f", "t", "p" >>,
      << "s", "k", "y", "p", "e" >>,
      << "s", "m", "t", "p" >>,
      << "s", "n", "m", "p" >>,
      << "s", "o", "a", "p" >>,
      << "s", "s", "h" >>,
      << "s", "t", "e", "a", "m" >>,
      << "s", "v", "n" >>,
      << "t", "c", "p" >>,
      << "t", "e", "l", "n", "e", "t" >>,
      << "u", "d", "p" >>,
      << "v", "n", "c" >>,
      << "w", "a", "i", "s" >>,
      << "w", "s" >>,
      << "w", "s", "s" >> }

\* UsesDNSHostValidation: a switch on the scheme as given (no case folding)
UsesDNSHostValidation(scheme) == scheme \in dnsSchemes

\* the error results of the segment validators
segmentFail(err) == [last |-> RuneError, offset |-> 0, err |-> err]

\* the end of validateFirstRuneInSegment, on the first rune r of the segment
\* (unescaped when it was escaped) and the offset after it
firstRuneResult(r, offset) ==
    IF ~unicodeIsLetter(r)
    THEN segmentFail(errorsJoin({ ErrInvalidDNSName }, cause))
    ELSE [last |-> r, offset |-> offset, err |-> nil]

\* a segment that starts with '%', given the outcome esc of unescapePercentEncoding(s[1:])
firstRuneEscaped(esc) ==
    IF esc.err # nil
    THEN segmentFail(errorsJoin({ ErrInvalidDNSName }, errorsJoin({ ErrInvalidEscaping }, esc.err)))
    ELSE firstRuneResult(esc.rune, 1 + esc.offset)

\* validateFirstRuneInSegment: [last, offset, err]
validateFirstRuneInSegment(s) ==
    IF Ord(At(s, 0)) = RuneError THEN segmentFail(errorsJoin({ ErrInvalidDNSName }, cause))
    ELSE IF At(s, 0) = dotSeparator THEN segmentFail(errorsJoin({ ErrInvalidDNSName }, cause))
    ELSE IF At(s, 0) = percentMark
    THEN IF 1 >= Len(s)
         THEN segmentFail(errorsJoin({ ErrInvalidEscaping }, cause))
         ELSE firstRuneEscaped(unescapePercentEncoding(SliceFrom(s, 1)))
    ELSE firstRuneResult(Ord(At(s, 0)), 1)

RECURSIVE hostSegmentLoop(_, _, _, _)
\* one turn of the loop of validateHostSegment once the rune r is known
\* (unescaped when it was escaped), offset being the index after it
hostSegmentRune(s, offset, last, r) ==
    IF r = Ord(dotSeparator)
    THEN \* end of segment, possibly with an escaped "."
         IF offset >= Len(s)
         THEN segmentFail(errorsJoin({ ErrInvalidDNSName }, cause))
         ELSE IF ~unicodeIsLetter(last) /\ ~unicodeIsDigit(last)
              THEN segmentFail(errorsJoin({ ErrInvalidDNSName }, cause))
              ELSE [last |-> r, offset |-> offset, err |-> nil]
    ELSE IF offset > maxSegmentLength
         THEN segmentFail(errorsJoin({ ErrInvalidDNSName }, cause))
    ELSE IF ~unicodeIsLetter(r) /\ ~unicodeIsDigit(r) /\ r # Ord("-")
         THEN segmentFail(errorsJoin({ ErrInvalidDNSName }, cause))
    ELSE hostSegmentLoop(s, offset, r, TRUE)

\* a '%' at s[offset-1], given the outcome esc of unescapePercentEncoding(s[offset:])
hostSegmentEscaped(s, offset, last, esc) ==
    IF esc.err # nil
    THEN segmentFail(errorsJoin({ ErrInvalidDNSName }, errorsJoin({ ErrInvalidEscaping }, esc.err)))
    ELSE hostSegmentRune(s, offset + esc.offset, last, esc.rune)

\* the loop of validateHostSegment, at index offset, after the rune last
hostSegmentLoop(s, offset, last, once) ==
    IF offset >= Len(s)
    THEN \* last rune in segment
         IF once /\ ~unicodeIsLetter(last) /\ ~unicodeIsDigit(last)
         THEN segmentFail(errorsJoin({ ErrInvalidDNSName }, cause))
         ELSE [last |-> last, offset |-> offset, err |-> nil]
    ELSE IF Ord(At(s, offset)) = RuneError
         THEN segmentFail(errorsJoin({ ErrInvalidDNSName }, cause))
    ELSE IF At(s, offset) = percentMark
         THEN IF offset + 1 >= Len(s)
              THEN segmentFail(errorsJoin({ ErrInvalidDNSName },
                                          errorsJoin({ ErrInvalidEscaping }, cause)))
              ELSE hostSegmentEscaped(s, offset + 1, last,
                                      unescapePercentEncoding(SliceFrom(s, offset + 1)))
    ELSE hostSegmentRune(s, offset + 1, last, Ord(At(s, offset)))

\* validateHostSegment after its call of validateFirstRuneInSegment, of outcome f
hostSegmentAfterFirst(s, f) ==
    IF f.err # nil THEN segmentFail(f.err) ELSE hostSegmentLoop(s, f.offset, f.last, FALSE)

\* validateHostSegment: [last, offset, err]
validateHostSegment(s) == hostSegmentAfterFirst(s, validateFirstRuneInSegment(s))

RECURSIVE dnsHostLoop(_, _)
\* one turn of the loop of validateDNSHostForScheme, given the outcome seg of
\* validateHostSegment(host[offset:])
dnsHostNext(host, offset, seg) ==
    IF seg.err # nil THEN seg.err
    ELSE IF seg.last # Ord(dotSeparator) THEN nil
    ELSE dnsHostLoop(host, offset + seg.offset)

\* the loop of validateDNSHostForScheme, at index offset
dnsHostLoop(host, offset) ==
    IF offset >= Len(host) THEN nil
    ELSE dnsHostNext(host, offset, validateHostSegment(SliceFrom(host, offset)))

\* validateDNSHostForScheme without the limit on the length of the host
validateDNSHostForSchemeUnbounded(host) ==
    IF Len(host) = 0 THEN errorsJoin({ ErrInvalidDNSName }, cause)
    ELSE dnsHostLoop(host, 0)

validateDNSHostForScheme(host) ==
    IF Len(host) > maxDomainLength THEN errorsJoin({ ErrInvalidDNSName }, cause)
    ELSE IF Len(host) = 0 THEN errorsJoin({ ErrInvalidDNSName }, cause)
    ELSE dnsHostLoop(host, 0)

(***************************************************************************)
(* Options                                                                 *)
(***************************************************************************)

flagValidateScheme == 1

flagValidateHost == 2

flagValidatePort == 4

flagValidateUserInfo == 8

flagValidatePath == 16

flagValidateQuery == 32

flagValidateFragment == 64

\* ^uint16(0)
allValidationFlags == 65535

\* o.validationFlags&flag > 0, for a flag that is one bit
hasFlag(validationFlags, flag) == (validationFlags \div flag) % 2 = 1

\* the values that stand for functions of type func(string) bool: the
\* package's UsesDNSHostValidation, and two predicates of a caller's
SchemeIsDNSFuncs == { "UsesDNSHostValidation", "always", "never" }

\* the values of the package-level option structs as the package declares them
packageLevelDefaults ==
    [ schemeIsDNSFunc |-> "UsesDNSHostValidation",
      withURIReference |-> FALSE,
      validationFlags |-> allValidationFlags ]

packageLevelReferenceDefaults ==
    [ schemeIsDNSFunc |-> "UsesDNSHostValidation",
      withURIReference |-> TRUE,
      validationFlags |-> allValidationFlags ]

\* the option set by withValidationFlags(flags), applied to o
withValidationFlags(o, flags) == [ o EXCEPT !.validationFlags = flags ]

\* applyURIOptions(opts) of a builder method: a struct reset to the package-level
\* defaults, on which the method's withValidationFlags is applied last
applyURIOptions(flags) == withValidationFlags(packageLevelDefaults, flags)

(***************************************************************************)
(* The URI value (uri.go)                                                  *)
(***************************************************************************)

\* ipType{}
noIP == [ isIPv4 |-> FALSE, isIPv6 |-> FALSE, isIPvFuture |-> FALSE ]

\* Authority{}
zeroAuthority ==
    [ err |-> nil, prefix |-> << >>, userinfo |-> << >>, host |-> << >>,
      port |-> << >>, path |-> << >>, ipType |-> noIP ]

\* URI{}
zeroURI ==
    [ err |-> nil, scheme |-> << >>, hierPart |-> << >>, query |-> << >>,
      fragment |-> << >>, authority |-> zeroAuthority ]

\* URI{err: err}
errURI(err) == [ zeroURI EXCEPT !.err = err ]

(***************************************************************************)
(* Component validators (uri.go)                                           *)
(***************************************************************************)

\* the characters of a scheme after the first, without '+', '-' and '.'
isSchemeCharAlphanumeric(c) == isDigit(c) \/ isASCIILetter(c)

\* the characters of a scheme after the first
isSchemeChar(c) ==
    isDigit(c) \/ isASCIILetter(c) \/ c = Ord("+") \/ c = Ord("-") \/ c = Ord(".")

validateScheme(scheme) ==
    IF Len(scheme) < 2 THEN { ErrInvalidScheme }
    ELSE IF ~isASCIILetter(Ord(At(scheme, 0)))
         THEN errorsJoin({ ErrInvalidScheme }, cause)
         ELSE IF \E i \in 1..(Len(scheme) - 1) : ~isSchemeChar(Ord(At(scheme, i)))
              THEN errorsJoin({ ErrInvalidScheme }, cause)
              ELSE nil

validateQuery(query) ==
    joinIfErr(ErrInvalidQuery, validateUnreservedWithExtra(query, queryOrFragmentExtraRunes))

validateFragment(fragment) ==
    joinIfErr(ErrInvalidFragment, validateUnreservedWithExtra(fragment, queryOrFragmentExtraRunes))

RECURSIVE pathSegmentsFrom(_, _, _)
\* after the '/' at path[pos], given the error err of the segment before it
pathSegmentsNext(path, pos, err) ==
    IF err # nil THEN errorsJoin({ ErrInvalidPath }, err)
    ELSE pathSegmentsFrom(path, pos + 1, pos + 1)

\* the loop of validatePath, at index pos, the current segment starting at
\* previousPos: the turns on characters other than '/' do nothing, so the loop
\* is at the next '/' from pos on, or past the end, where the last segment is
\* validated
pathSegmentsFrom(path, pos, previousPos) ==
    IF IndexByte(SliceFrom(path, pos), slashMark) < 0
    THEN IF previousPos < Len(path)
         THEN joinIfErr(ErrInvalidPath,
                        validateUnreservedWithExtra(SliceFrom(path, previousPos), pcharExtraRunes))
         ELSE nil
    ELSE pathSegmentsNext(path, pos + IndexByte(SliceFrom(path, pos), slashMark),
             IF pos + IndexByte(SliceFrom(path, pos), slashMark) > previousPos
             THEN validateUnreservedWithExtra(
                      Slice(path, previousPos, pos + IndexByte(SliceFrom(path, pos), slashMark)),
                      pcharExtraRunes)
             ELSE nil)

validatePath(a, path) ==
    IF /\ a.host = << >>
       /\ a.port = << >>
       /\ Len(path) >= 2
       /\ At(path, 0) = slashMark
       /\ At(path, 1) = slashMark
    THEN errorsJoin({ ErrInvalidPath }, cause)
    ELSE pathSegmentsFrom(path, 0, 0)

validateRegisteredHostForScheme(host) ==
    joinIfErr(ErrInvalidRegisteredName, validateUnreservedWithExtra(host, {}))

\* validateHostForScheme after the DNS check, of error err
registeredHostAfterDNS(host, err) ==
    IF err # nil THEN err ELSE validateRegisteredHostForScheme(host)

\* the scheme is classified by the package's UsesDNSHostValidation; the options
\* o are handed over to the validator of registered names, which ignores them
validateHostForScheme(host, scheme, o) ==
    registeredHostAfterDNS(host,
        IF UsesDNSHostValidation(scheme) THEN validateDNSHostForScheme(host) ELSE nil)

\* the outcome [ip, err] of validateHost on a host of address kind ip whose
\* validator returned err, joined with ErrInvalidHost or ErrInvalidHostAddress
hostResult(ip, kind, err) ==
    IF err # nil
    THEN [ip |-> noIP, err |-> errorsJoin({ kind }, err)]
    ELSE [ip |-> ip, err |-> nil]

\* validateHost: [ip, err]
validateHost(host, isIPv6, scheme, o) ==
    IF isIPv6
    THEN IF At(host, 0) = "v" \/ At(host, 0) = "V"
         THEN hostResult([noIP EXCEPT !.isIPv6 = TRUE, !.isIPvFuture = TRUE],
                         ErrInvalidHostAddress, validateIPvFuture(SliceFrom(host, 1)))
         ELSE [ip |-> [noIP EXCEPT !.isIPv6 = TRUE], err |-> validateIPv6(host)]
    ELSE IF validateIPv4(host) = nil
         THEN [ip |-> [noIP EXCEPT !.isIPv4 = TRUE], err |-> nil]
         ELSE hostResult(noIP, ErrInvalidHost, validateHostForScheme(host, scheme, o))

maxPort == 65535

RECURSIVE parsePortNumWrapping(_)
\* the port parsed into 16 bits, wrapping around
parsePortNumWrapping(port) ==
    IF Len(port) = 0 THEN 0
    ELSE (parsePortNumWrapping(Slice(port, 0, Len(port) - 1)) * 10
          + (Ord(At(port, Len(port) - 1)) - Ord("0"))) % (maxPort + 1)

RECURSIVE parsePortNum(_)
\* strconv.ParseUint(port, 10, 64) of a string of digits, as far as the comparison
\* with maxPort can tell: a value beyond maxPort (the code's saturates at 2^64-1)
\* is kept as maxPort + 1
parsePortNum(port) ==
    IF Len(port) = 0 THEN 0
    ELSE LET v == parsePortNum(Slice(port, 0, Len(port) - 1)) * 10
                  + (Ord(At(port, Len(port) - 1)) - Ord("0"))
         IN  IF v > maxPort THEN maxPort + 1 ELSE v

validatePort(port, host) ==
    IF ~isNumerical(port) THEN { ErrInvalidPort }
    ELSE IF host = << >> THEN errorsJoin({ ErrMissingHost }, cause)
    ELSE IF parsePortNum(port) > maxPort THEN errorsJoin({ ErrInvalidPort }, cause)
    ELSE nil

validateUserInfo(userinfo) ==
    joinIfErr(ErrInvalidUserInfo, validateUnreservedWithExtra(userinfo, userInfoExtraRunes))

\* the first error in the order host, path, port, userinfo
firstAuthorityErrHostFirst(pathErr, h, portErr, userErr) ==
    IF h.err # nil THEN h
    ELSE IF pathErr # nil THEN [ip |-> noIP, err |-> pathErr]
    ELSE IF portErr # nil THEN [ip |-> h.ip, err |-> portErr]
    ELSE IF userErr # nil THEN [ip |-> h.ip, err |-> userErr]
    ELSE [ip |-> h.ip, err |-> nil]

\* the first error of Authority.validateForScheme, in the order path, host,
\* port, userinfo: [ip, err]
firstAuthorityErr(pathErr, h, portErr, userErr) ==
    IF pathErr # nil THEN [ip |-> noIP, err |-> pathErr]
    ELSE IF h.err # nil THEN h
    ELSE IF portErr # nil THEN [ip |-> h.ip, err |-> portErr]
    ELSE IF userErr # nil THEN [ip |-> h.ip, err |-> userErr]
    ELSE [ip |-> h.ip, err |-> nil]

\* Authority.validateForScheme: [ip, err]
validateForScheme(a, scheme, o) ==
    firstAuthorityErr(
        IF a.path # << >> /\ hasFlag(o.validationFlags, flagValidatePath)
        THEN validatePath(a, a.path)
        ELSE nil,
        IF a.host # << >> /\ hasFlag(o.validationFlags, flagValidateHost)
        THEN validateHost(a.host, a.ipType.isIPv6, scheme, o)
        ELSE [ip |-> noIP, err |-> nil],
        IF a.port # << >> /\ hasFlag(o.validationFlags, flagValidatePort)
        THEN validatePort(a.port, a.host)
        ELSE nil,
        IF a.userinfo # << >> /\ hasFlag(o.validationFlags, flagValidateUserInfo)
        THEN validateUserInfo(a.userinfo)
        ELSE nil)

\* the first error of URI.validate, in the order scheme, query, fragment,
\* authority: [ip, err]
firstURIErr(schemeErr, queryErr, fragmentErr, authorityResult) ==
    IF schemeErr # nil THEN [ip |-> noIP, err |-> schemeErr]
    ELSE IF queryErr # nil THEN [ip |-> noIP, err |-> queryErr]
    ELSE IF fragmentErr # nil THEN [ip |-> noIP, err |-> fragmentErr]
    ELSE authorityResult

\* URI.validate: [ip, err]
validate(u, o) ==
    firstURIErr(
        IF u.scheme # << >> /\ hasFlag(o.validationFlags, flagValidateScheme)
        THEN validateScheme(u.scheme)
        ELSE nil,
        IF u.query # << >> /\ hasFlag(o.validationFlags, flagValidateQuery)
        THEN validateQuery(u.query)
        ELSE nil,
        IF u.fragment # << >> /\ hasFlag(o.validationFlags, flagValidateFragment)
        THEN validateFragment(u.fragment)
        ELSE nil,
        IF u.hierPart # << >>
        THEN validateForScheme(u.authority, u.scheme, o)
        ELSE [ip |-> noIP, err |-> nil])

(***************************************************************************)
(* Decomposer (uri.go)                                                     *)
(***************************************************************************)

\* the host region of an authority with brackets: [host, port, isIPv6, err]
bracketedHost(host, bracket) ==
    LET closingbracket == IndexByte(host, closingBracketMark)
        rawHost == SliceFrom(host, closingbracket + 1)
        colon == IndexByte(rawHost, colonMark)
    IN  IF closingbracket > bracket + 1
        THEN [ host |-> Slice(host, bracket + 1, closingbracket),
               port |-> IF colon >= 0 /\ colon + 1 < Len(rawHost)
                        THEN SliceFrom(rawHost, colon + 1)
                        ELSE << >>,
               isIPv6 |-> TRUE,
               err |-> nil ]
        ELSE \* empty IPv6 address, or mismatched square brackets
             [ host |-> << >>, port |-> << >>, isIPv6 |-> FALSE,
               err |-> errorsJoin({ ErrInvalidHostAddress }, cause) ]

\* the host region of an authority without brackets: [host, port, isIPv6, err]
plainHost(host) ==
    LET colon == IndexByte(host, colonMark)
    IN  IF colon >= 0
        THEN [ host |-> Slice(host, 0, colon),
               port |-> IF colon + 1 < Len(host) THEN SliceFrom(host, colon + 1) ELSE << >>,
               isIPv6 |-> FALSE,
               err |-> nil ]
        ELSE [ host |-> host, port |-> << >>, isIPv6 |-> FALSE, err |-> nil ]

\* parseAuthority(hier): [authority, err]
parseAuthority(hier) ==
    IF ~HasPrefix(hier, authorityPrefix)
    THEN [ authority |-> [ zeroAuthority EXCEPT !.path = hier ], err |-> nil ]
    ELSE LET trimmed == SliceFrom(hier, Len(authorityPrefix))
             slashEnd == IndexByte(trimmed, slashMark)
             path == IF slashEnd > -1 THEN SliceFrom(trimmed, slashEnd) ELSE << >>
             region == IF slashEnd > -1 THEN Slice(trimmed, 0, slashEnd) ELSE trimmed
             at == IndexByte(region, atHost)
             userinfo == IF at > 0 THEN Slice(region, 0, at) ELSE << >>
             host == IF at > 0 /\ at + 1 < Len(region) THEN SliceFrom(region, at + 1) ELSE region
             bracket == IndexByte(host, openingBracketMark)
             hp == IF bracket >= 0 THEN bracketedHost(host, bracket) ELSE plainHost(host)
         IN  IF hp.err # nil
             THEN [ authority |-> zeroAuthority, err |-> hp.err ]
             ELSE [ authority |->
                       [ err |-> nil, prefix |-> authorityPrefix, userinfo |-> userinfo,
                         host |-> hp.host, port |-> hp.port, path |-> path,
                         ipType |-> [ noIP EXCEPT !.isIPv6 = hp.isIPv6 ] ],
                    err |-> nil ]

\* u.authority.ipType, u.err = v, the outcome of a validation
setValidation(u, v) == [ u EXCEPT !.authority.ipType = v.ip, !.err = v.err ]

\* u.authority.ipType, u.err = u.validate(o)
withValidation(u, o) == setValidation(u, validate(u, o))

\* u.authority.ipType, u.err = v; u.authority.err = u.err
setValidationAndAuthorityErr(u, v) ==
    [ u EXCEPT !.authority.ipType = v.ip, !.err = v.err, !.authority.err = v.err ]

\* the validation of a decomposed value without the copy of its error into the
\* authority
withValidationLeavingAuthorityErr(u, o) == setValidation(u, validate(u, o))

\* u.authority.ipType, u.err = u.validate(o); u.authority.err = u.err
withValidationAndAuthorityErr(u, o) == setValidationAndAuthorityErr(u, validate(u, o))

\* the URI of the hier-part hierPart, split by parseAuthority with outcome pa,
\* with its query and fragment: the whole is validated
decomposed(o, scheme, hierPart, pa, query, fragment) ==
    IF pa.err # nil
    THEN errURI(errorsJoin({ ErrInvalidURI }, pa.err))
    ELSE withValidationAndAuthorityErr(
             [ zeroURI EXCEPT !.scheme = scheme, !.hierPart = hierPart,
                              !.query = query, !.fragment = fragment,
                              !.authority = pa.authority ], o)

\* the query sliced with its '?'
querySliceWithMark(raw, hierPartEnd, queryEnd) ==
    IF hierPartEnd + 1 < Len(raw)
    THEN IF queryEnd < 0
         THEN SliceFrom(raw, hierPartEnd)
         ELSE IF hierPartEnd < queryEnd - 1
              THEN Slice(raw, hierPartEnd, queryEnd)
              ELSE << >>
    ELSE << >>

\* the query of parse, after a '?' at hierPartEnd > 0
querySlice(raw, hierPartEnd, queryEnd) ==
    IF hierPartEnd + 1 < Len(raw)
    THEN IF queryEnd < 0
         THEN \* query ?, no fragment
              SliceFrom(raw, hierPartEnd + 1)
         ELSE IF hierPartEnd < queryEnd - 1
              THEN \* query ?, fragment
                   Slice(raw, hierPartEnd + 1, queryEnd)
              ELSE << >>
    ELSE << >>

\* the fragment of parse, after a '#' at queryEnd > 0
fragmentSlice(raw, queryEnd) ==
    IF queryEnd + 1 < Len(raw) THEN SliceFrom(raw, queryEnd + 1) ELSE << >>

\* the slicing of parse once the scheme is known: the end of the hier-part,
\* the query and the fragment, [hierEnd, query, fragment]
hierSlices(raw, hierPartEnd, queryEnd) ==
    IF hierPartEnd = Len(raw) - 1 \/ (hierPartEnd < 0 /\ queryEnd < 0)
    THEN \* trailing ? or (no query & no fragment)
         [ hierEnd |-> IF hierPartEnd < 0 THEN Len(raw) ELSE hierPartEnd,
           query |-> << >>, fragment |-> << >> ]
    ELSE IF hierPartEnd > 0
    THEN [ hierEnd |-> hierPartEnd,
           query |-> querySlice(raw, hierPartEnd, queryEnd),
           fragment |-> IF queryEnd > 0 THEN fragmentSlice(raw, queryEnd) ELSE << >> ]
    ELSE IF queryEnd = Len(raw) - 1
    THEN \* trailing #, no query "?"
         [ hierEnd |-> queryEnd, query |-> << >>, fragment |-> << >> ]
    ELSE \* there is a fragment, no query
         [ hierEnd |-> queryEnd, query |-> << >>, fragment |-> fragmentSlice(raw, queryEnd) ]

\* parse from curr = schemeEnd + 1 on, given the slicing sl
parseHierPart(raw, o, scheme, curr, sl) ==
    decomposed(o, scheme, Slice(raw, curr, sl.hierEnd),
               parseAuthority(Slice(raw, curr, sl.hierEnd)), sl.query, sl.fragment)

\* a ':' at schemeEnd ends a scheme wherever it is, "//" at the start or not
hasSchemeAnywhere(raw, schemeEnd) == schemeEnd > 0

\* the first case of the switch of parse: schemeEnd > 0 && !isRelative
hasSchemeAt(raw, schemeEnd) == schemeEnd > 0 /\ ~HasPrefix(raw, authorityPrefix)

\* parse with the length of the scheme checked before the leading delimiters
parseSchemeFirst(raw, o) ==
    LET schemeEnd == IndexByte(raw, colonMark)
        hierPartEnd == IndexByte(raw, questionMark)
        queryEnd == IndexByte(raw, fragmentMark)
        hasScheme == hasSchemeAt(raw, schemeEnd)
    IN  IF schemeEnd = 1
        THEN errURI(errorsJoin({ ErrInvalidScheme }, cause))
        ELSE IF schemeEnd = 0 \/ hierPartEnd = 0 \/ queryEnd = 0
        THEN errURI(errorsJoin({ ErrInvalidURI }, cause))
        ELSE IF hierPartEnd = 1 \/ queryEnd = 1
        THEN errURI(errorsJoin({ ErrInvalidURI }, cause))
        ELSE IF \/ (hierPartEnd > 0 /\ hierPartEnd < schemeEnd)
                \/ (queryEnd > 0 /\ queryEnd < schemeEnd)
        THEN errURI(errorsJoin({ ErrInvalidURI }, cause))
        ELSE IF hasScheme /\ schemeEnd + 1 = Len(raw)
        THEN withValidation([ zeroURI EXCEPT !.scheme = Slice(raw, 0, schemeEnd) ], o)
        ELSE IF ~hasScheme /\ ~o.withURIReference
        THEN errURI(errorsJoin({ ErrNoSchemeFound }, cause))
        ELSE parseHierPart(raw, o,
                 IF hasScheme THEN Slice(raw, 0, schemeEnd) ELSE << >>,
                 IF hasScheme THEN schemeEnd + 1 ELSE 0,
                 hierSlices(raw,
                            IF queryEnd > 0 /\ queryEnd < hierPartEnd THEN queryEnd ELSE hierPartEnd,
                            queryEnd))

\* parse(raw, o): the URI value; the error returned is its err
parse(raw, o) ==
    LET schemeEnd == IndexByte(raw, colonMark)
        hierPartEnd == IndexByte(raw, questionMark)
        queryEnd == IndexByte(raw, fragmentMark)
        hasScheme == hasSchemeAt(raw, schemeEnd)
    IN  IF schemeEnd = 0 \/ hierPartEnd = 0 \/ queryEnd = 0
        THEN errURI(errorsJoin({ ErrInvalidURI }, cause))
        ELSE IF schemeEnd = 1
        THEN errURI(errorsJoin({ ErrInvalidScheme }, cause))
        ELSE IF hierPartEnd = 1 \/ queryEnd = 1
        THEN errURI(errorsJoin({ ErrInvalidURI }, cause))
        ELSE IF \/ (hierPartEnd > 0 /\ hierPartEnd < schemeEnd)
                \/ (queryEnd > 0 /\ queryEnd < schemeEnd)
        THEN errURI(errorsJoin({ ErrInvalidURI }, cause))
        ELSE IF hasScheme /\ schemeEnd + 1 = Len(raw)
        THEN \* trailing ':' (e.g. http:)
             withValidation([ zeroURI EXCEPT !.scheme = Slice(raw, 0, schemeEnd) ], o)
        ELSE IF ~hasScheme /\ ~o.withURIReference
        THEN \* scheme is required for URI
             errURI(errorsJoin({ ErrNoSchemeFound }, cause))
        ELSE parseHierPart(raw, o,
                 IF hasScheme THEN Slice(raw, 0, schemeEnd) ELSE << >>,
                 IF hasScheme THEN schemeEnd + 1 ELSE 0,
                 hierSlices(raw,
                            IF queryEnd > 0 /\ queryEnd < hierPartEnd THEN queryEnd ELSE hierPartEnd,
                            queryEnd))

\* Parse and ParseReference without options
Parse(raw) == parse(raw, packageLevelDefaults)

ParseReference(raw) == parse(raw, packageLevelReferenceDefaults)

(***************************************************************************)
(* Rendering (uri.go)                                                      *)
(***************************************************************************)

\* Authority.buildString
buildString(a) ==
    a.prefix
    \o a.userinfo
    \o (IF Len(a.userinfo) > 0 THEN << atHost >> ELSE << >>)
    \o (IF a.ipType.isIPv6
        THEN << openingBracketMark >> \o a.host \o << closingBracketMark >>
        ELSE a.host)
    \o (IF Len(a.port) > 0 THEN << colonMark >> ELSE << >>)
    \o a.port
    \o a.path

\* URI.String
String(u) ==
    (IF Len(u.scheme) > 0 THEN u.scheme \o << colonMark >> ELSE << >>)
    \o buildString(u.authority)
    \o (IF Len(u.query) > 0 THEN << questionMark >> \o u.query ELSE << >>)
    \o (IF Len(u.fragment) > 0 THEN << fragmentMark >> \o u.fragment ELSE << >>)

(***************************************************************************)
(* Builder methods (builder.go)                                            *)
(***************************************************************************)

withEnsuredAuthority(a) ==
    IF a.userinfo # << >> \/ a.host # << >> \/ a.port # << >>
    THEN [ a EXCEPT !.prefix = authorityPrefix ]
    ELSE a

\* URI.Authority
Authority(u) == withEnsuredAuthority(u.authority)

WithScheme(u, scheme) ==
    IF u.err # nil THEN u
    ELSE withValidation([ u EXCEPT !.scheme = scheme ],
                        applyURIOptions(flagValidateScheme + flagValidateHost))

WithAuthority(u, authority) ==
    IF u.err # nil THEN u
    ELSE withValidationAndAuthorityErr(
             [ u EXCEPT !.authority = authority ],
             applyURIOptions(flagValidateHost + flagValidatePort
                             + flagValidateUserInfo + flagValidatePath))

WithUserInfo(u, userinfo) ==
    IF u.err # nil THEN u
    ELSE withValidationAndAuthorityErr(
             [ u EXCEPT !.authority = [ withEnsuredAuthority(u.authority)
                                            EXCEPT !.userinfo = userinfo ] ],
             applyURIOptions(flagValidateUserInfo))

\* WithHost that resets the port along with the host
WithHostResettingPort(u, host) ==
    IF u.err # nil THEN u
    ELSE withValidationAndAuthorityErr(
             [ u EXCEPT !.authority = [ withEnsuredAuthority(u.authority)
                                            EXCEPT !.host = host, !.port = << >> ] ],
             applyURIOptions(flagValidateHost + flagValidatePort))

WithHost(u, host) ==
    IF u.err # nil THEN u
    ELSE withValidationAndAuthorityErr(
             [ u EXCEPT !.authority = [ withEnsuredAuthority(u.authority)
                                            EXCEPT !.host = host ] ],
             applyURIOptions(flagValidateHost + flagValidatePort))

\* WithPort without the check of the receiver's error
WithPortUnguarded(u, port) ==
    withValidationAndAuthorityErr(
        [ u EXCEPT !.authority = [ withEnsuredAuthority(u.authority)
                                       EXCEPT !.port = port ] ],
        applyURIOptions(flagValidatePort))

WithPort(u, port) ==
    IF u.err # nil THEN u
    ELSE withValidationAndAuthorityErr(
             [ u EXCEPT !.authority = [ withEnsuredAuthority(u.authority)
                                            EXCEPT !.port = port ] ],
             applyURIOptions(flagValidatePort))

WithPath(u, path) ==
    IF u.err # nil THEN u
    ELSE withValidationAndAuthorityErr(
             [ u EXCEPT !.authority = [ withEnsuredAuthority(u.authority)
                                            EXCEPT !.path = path ] ],
             applyURIOptions(flagValidatePath))

WithQuery(u, query) ==
    IF u.err # nil THEN u
    ELSE withValidation([ u EXCEPT !.query = query ], applyURIOptions(flagValidateQuery))

WithFragment(u, fragment) ==
    IF u.err # nil THEN u
    ELSE withValidation([ u EXCEPT !.fragment = fragment ],
                        applyURIOptions(flagValidateFragment))

RECURSIVE joinElems(_, _)
\* the loop of path.Join: the non-empty elements, and the empty ones that follow
\* a non-empty one, separated by '/'
joinElems(buf, elems) ==
    IF Len(elems) = 0 THEN buf
    ELSE LET e == Head(elems)
         IN  IF Len(buf) > 0 THEN joinElems(buf \o << slashMark >> \o e, Tail(elems))
             ELSE IF e # << >> THEN joinElems(e, Tail(elems))
             ELSE joinElems(buf, Tail(elems))

RECURSIVE cleanSegments(_, _, _)
\* the segments of path.Clean: "" and "." dropped, ".." removing the segment
\* before it, or kept when the path is not rooted and nothing is left to remove
cleanSegments(segs, out, rooted) ==
    IF Len(segs) = 0 THEN out
    ELSE LET g == Head(segs)
         IN  IF g = << >> \/ g = << "." >> THEN cleanSegments(Tail(segs), out, rooted)
             ELSE IF g = << ".", "." >>
             THEN IF Len(out) > 0 /\ out[Len(out)] # << ".", "." >>
                  THEN cleanSegments(Tail(segs), SubSeq(out, 1, Len(out) - 1), rooted)
                  ELSE IF rooted THEN cleanSegments(Tail(segs), out, rooted)
                  ELSE cleanSegments(Tail(segs), Append(out, g), rooted)
             ELSE cleanSegments(Tail(segs), Append(out, g), rooted)

RECURSIVE joinSegments(_)
\* segments separated by '/'
joinSegments(segs) ==
    IF Len(segs) = 0 THEN << >>
    ELSE IF Len(segs) = 1 THEN segs[1]
    ELSE segs[1] \o << slashMark >> \o joinSegments(Tail(segs))

\* path.Clean
pathClean(path) ==
    IF path = << >> THEN << "." >>
    ELSE LET rooted == At(path, 0) = slashMark
             out == joinSegments(cleanSegments(Split(path, slashMark), << >>, rooted))
         IN  IF rooted THEN << slashMark >> \o out
             ELSE IF out = << >> THEN << "." >>
             ELSE out

\* path.Join
pathJoin(elems) ==
    LET buf == joinElems(<< >>, elems)
    IN  IF buf = << >> THEN << >> ELSE pathClean(buf)

WithJoinPath(u, elems) ==
    IF u.err # nil THEN u
    ELSE withValidationAndAuthorityErr(
             [ u EXCEPT !.authority = [ withEnsuredAuthority(u.authority)
                                            EXCEPT !.path = pathJoin(<< u.authority.path >> \o elems) ] ],
             applyURIOptions(flagValidatePath))

(***************************************************************************)
(* The inputs                                                              *)
(***************************************************************************)

\* the longest filler, in characters
MaxLen == 4

\* the most builder calls chained on a parsed value
MaxOps == 2

\* the strings of at most n characters of the set chars
RECURSIVE StringsUpTo(_, _)
StringsUpTo(chars, n) ==
    IF n = 0 THEN { << >> }
    ELSE LET shorter == StringsUpTo(chars, n - 1)
         IN  shorter \cup { Append(t, c) : t \in shorter, c \in chars }

\* the characters of the fillers: a letter that is a hex digit, a letter that is
\* not, a digit, and the delimiters of the grammar
FillerChars == { "c", "h", "8", ":", "/", "?", "#", "@", "%", "[", "]", "." }

\* what precedes the filler in an input
Prefixes ==
    { << >>,
      << "h", "t", "t", "p", ":" >>,
      << "u", "r", "n", ":", "/", "/" >>,
      << "8", "h", ":" >> }

\* what precedes and what follows a bracketed host in an authority: nothing, a
\* userinfo, a port, and text that is none of them
BeforeBracket == { << >>, << "c" >>, << "c", "@" >>, << "c", "@", "h" >>, << "@" >> }

AfterBracket == { << >>, << ":" >>, << ":", "8" >>, << "h" >>, << "h", ":", "8" >>, << ":", "8", "/", "c" >> }

\* inputs with the bracketed host "[::]"
BracketInputs ==
    { << "u", "r", "n", ":", "/", "/" >> \o b \o << "[", ":", ":", "]" >> \o a :
          b \in BeforeBracket, a \in AfterBracket }

ParseInputs ==
    { p \o f : p \in Prefixes, f \in StringsUpTo(FillerChars, MaxLen) } \cup BracketInputs

Modes == { "uri", "reference" }

(***************************************************************************)
(* The state machine: an input is parsed, builder methods are applied to   *)
(* the value, the value is rendered and the rendering is parsed again.     *)
(***************************************************************************)

VARIABLES
    raw,      \* the input
    mode,     \* "uri": Parse, "reference": ParseReference
    pc,       \* "start", "value", "rendered", "reparsed"
    u,        \* the current URI value
    recv,     \* the receiver of the last builder call
    op,       \* the last operation applied
    nops,     \* the number of builder calls so far
    str,      \* u.String()
    u2,       \* the value parsed from str
    packageLevel,   \* the package-level option structs: Defaults, ReferenceDefaults
    heap,           \* the option structs allocated by the pool, by address
    poolOfOptions,  \* the addresses of the structs at rest in the pool
    calls           \* the calls in progress, one per goroutine

\* the state of the options: the package-level structs, the pool and its users
optionVars == << packageLevel, heap, poolOfOptions, calls >>

vars == << raw, mode, pc, u, recv, op, nops, str, u2, optionVars >>

\* ParseReference(s) or Parse(s)
parseIn(m, s) ==
    parse(s, IF m = "reference" THEN packageLevelReferenceDefaults ELSE packageLevelDefaults)

\* the number of goroutines that call the package in parallel
MaxGoroutines == 2

\* the goroutines that call the package
Goroutines == 1..MaxGoroutines

\* a goroutine that is not in a call
idleCall ==
    [ pc |-> "idle", kind |-> "none", arg |-> << >>, opts |-> << >>, o |-> "nil",
      result |-> zeroURI ]

\* the package as it is loaded: the package-level structs hold the declared
\* values, the pool has allocated nothing, no call is in progress
InitOptions ==
    /\ packageLevel = [ Defaults |-> packageLevelDefaults,
                        ReferenceDefaults |-> packageLevelReferenceDefaults ]
    /\ heap = [ a \in {} |-> packageLevelDefaults ]
    /\ poolOfOptions = {}
    /\ calls = [ g \in Goroutines |-> idleCall ]

InitWith(inputs) ==
    /\ raw \in inputs
    /\ mode \in Modes
    /\ pc = "start"
    /\ u = zeroURI
    /\ recv = zeroURI
    /\ op = "none"
    /\ nops = 0
    /\ str = << >>
    /\ u2 = zeroURI
    /\ InitOptions

\* u, err := Parse(raw) or ParseReference(raw)
DoParse ==
    /\ pc = "start"
    /\ u' = parseIn(mode, raw)
    /\ pc' = "value"
    /\ op' = "Parse"
    /\ UNCHANGED << raw, mode, recv, nops, str, u2, optionVars >>

\* str := u.String()
DoString ==
    /\ pc = "value"
    /\ str' = String(u)
    /\ pc' = "rendered"
    /\ UNCHANGED << raw, mode, u, recv, op, nops, u2, optionVars >>

\* u2, err := Parse(str) or ParseReference(str)
DoReparse ==
    /\ pc = "rendered"
    /\ u2' = parseIn(mode, str)
    /\ pc' = "reparsed"
    /\ UNCHANGED << raw, mode, u, recv, op, nops, str, optionVars >>

InitParse == InitWith(ParseInputs)

NextParse == DoParse \/ DoString \/ DoReparse

SpecParse == InitParse /\ [][NextParse]_vars

(***************************************************************************)
(* The builder calls of the state machine                                  *)
(***************************************************************************)

\* the inputs on which builder methods are chained
BuilderInputs ==
    { << "h", "t", "t", "p", ":" >>,
      << "h", "t", "t", "p", ":", "/", "/", "h", ":", "8", "0", "/", "a", "?", "q", "#", "f" >>,
      << "u", "r", "n", ":", "/", "/", "u", "@", "h" >>,
      << "u", "r", "n", ":", "a", "/", "b" >>,
      << "h", "t", "t", "p", ":", "/", "/", "[", ":", ":", "1", "]", ":", "8", "0" >>,
      << "/", "/", "h", "/", "p", "?" >>,
      << "h", "t", "t", "p", ":", "/", "/", "h", "{" >> }

\* the arguments of the builder calls: for each component, values that its
\* validator accepts and values that it rejects
SchemeArgs == { << "f", "t", "p" >>, << "1" >> }

UserInfoArgs == { << "u", ":", "p" >>, << "u", "@", "p" >>, << "u", "{" >> }

HostArgs == { << "h", ".", "c" >>, << "{" >> }

PortArgs == { << "4", "4", "4" >>, << "X", "8", "0" >> }

PathArgs == { << "/", "b" >>, << "/", "{" >> }

QueryArgs == { << "a", "=", "b" >>, << "{" >> }

FragmentArgs == { << "c" >>, << "{" >> }

JoinPathArgs == { << << "c" >> >>, << << ".", "." >>, << "{" >> >> }

AuthorityArgs ==
    { [ zeroAuthority EXCEPT !.prefix = authorityPrefix, !.host = << "h" >>,
                             !.path = << "/", "p" >> ],
      [ zeroAuthority EXCEPT !.prefix = authorityPrefix, !.host = << "h" >>,
                             !.port = << "x" >> ] }

BuilderOps ==
    { "WithScheme", "WithAuthority", "WithUserInfo", "WithHost", "WithPort",
      "WithPath", "WithQuery", "WithFragment", "WithJoinPath" }

\* u = u.With...(...): the call named name returned result
Built(name, result) ==
    /\ pc = "value"
    /\ nops < MaxOps
    /\ u' = result
    /\ recv' = u
    /\ op' = name
    /\ nops' = nops + 1
    /\ UNCHANGED << raw, mode, pc, str, u2, optionVars >>

DoWithScheme == \E scheme \in SchemeArgs : Built("WithScheme", WithScheme(u, scheme))

DoWithAuthority == \E authority \in AuthorityArgs : Built("WithAuthority", WithAuthority(u, authority))

DoWithUserInfo == \E userinfo \in UserInfoArgs : Built("WithUserInfo", WithUserInfo(u, userinfo))

DoWithHost == \E host \in HostArgs : Built("WithHost", WithHost(u, host))

DoWithPort == \E port \in PortArgs : Built("WithPort", WithPort(u, port))

DoWithPath == \E path \in PathArgs : Built("WithPath", WithPath(u, path))

DoWithQuery == \E query \in QueryArgs : Built("WithQuery", WithQuery(u, query))

DoWithFragment == \E fragment \in FragmentArgs : Built("WithFragment", WithFragment(u, fragment))

DoWithJoinPath == \E elems \in JoinPathArgs : Built("WithJoinPath", WithJoinPath(u, elems))

Init == InitWith(BuilderInputs)

Next ==
    \/ DoParse
    \/ DoWithScheme
    \/ DoWithAuthority
    \/ DoWithUserInfo
    \/ DoWithHost
    \/ DoWithPort
    \/ DoWithPath
    \/ DoWithQuery
    \/ DoWithFragment
    \/ DoWithJoinPath
    \/ DoString
    \/ DoReparse

Spec == Init /\ [][Next]_vars

(***************************************************************************)
(* The component validators applied on their own: validate and             *)
(* validateForScheme call each of them on a non-empty component text.      *)
(***************************************************************************)

\* the longest component text, in characters
MaxTextLen == 3

\* the characters of the component texts: a letter that is a hex digit, one
\* that is not, a digit, the escape mark, a character that no component
\* accepts, and punctuation of the scheme, host and path grammars
TextChars == { "c", "G", "4", "%", "{", ".", "+", "-", "/" }

\* escape sequences: complete and incomplete, of one to four bytes, well-formed
\* (A, '.', e acute, the euro sign, an emoji, U+FFFD) and ill-formed (a lone
\* continuation byte, an overlong form, a truncated sequence, a surrogate, a code
\* point beyond U+10FFFF)
EscapeTexts ==
    { << "%", "4", "1" >>,
      << "%", "2", "E" >>,
      << "%", "8", "0" >>,
      << "%", "C", "3" >>,
      << "%", "C", "3", "%", "A", "9" >>,
      << "%", "C", "3", "%", "4" >>,
      << "%", "C", "3", "%", "4", "1" >>,
      << "%", "C", "3", "c", "c", "c" >>,
      << "%", "C", "0", "%", "8", "0" >>,
      << "%", "E", "2", "%", "8", "2" >>,
      << "%", "E", "2", "%", "8", "2", "%", "A", "C" >>,
      << "%", "E", "2", "%", "8", "2", "%", "G", "C" >>,
      << "%", "E", "D", "%", "A", "0", "%", "8", "0" >>,
      << "%", "E", "F", "%", "B", "F", "%", "B", "D" >>,
      << "%", "F", "0", "%", "9", "F", "%", "9", "8" >>,
      << "%", "F", "0", "%", "9", "F", "%", "9", "8", "%", "8", "0" >>,
      << "%", "F", "4", "%", "9", "0", "%", "8", "0", "%", "8", "0" >>,
      << "%", "F", "F" >> }

\* what surrounds an escape sequence in a component text
EscapeAffixes == { << >>, << "c" >>, << "{" >> }

\* port texts around the limits: 65535 and 65536, with and without leading
\* zeros, a value beyond five digits, 2^64 - 1 and 2^64, and a digit after a
\* letter
PortTexts ==
    { << "0" >>,
      << "6", "5", "5", "3", "5" >>,
      << "6", "5", "5", "3", "6" >>,
      << "0", "6", "5", "5", "3", "5" >>,
      << "0", "0", "6", "5", "5", "3", "6" >>,
      << "1", "0", "0", "0", "0", "0" >>,
      << "1", "8", "4", "4", "6", "7", "4", "4", "0", "7", "3", "7", "0", "9", "5", "5", "1", "6", "1", "5" >>,
      << "1", "8", "4", "4", "6", "7", "4", "4", "0", "7", "3", "7", "0", "9", "5", "5", "1", "6", "1", "6" >>,
      << "8", "0", "8", "0", "a" >> }

\* n times the letter c
Letters(n) == [ i \in 1..n |-> "c" ]

\* the escape of the letter U+20000, a scalar of four bytes in UTF-8
wideEscape == << "%", "F", "0", "%", "A", "0", "%", "8", "0", "%", "8", "0" >>

\* n times the escape of U+20000, that is 12 * n bytes
WideLetters(n) == [ i \in 1..(12 * n) |-> wideEscape[((i - 1) % 12) + 1] ]

\* a label of 60 bytes
Label60 == WideLetters(5)

\* host texts around the limits of the DNS names: labels of 63 and 64 bytes, in
\* any position, ended by letters, by an escape or by an escaped '.'; a host of
\* 256 bytes whose labels have at most 63 bytes.  The escapes keep the texts
\* long in bytes and short in scalars.
DNSTexts ==
    { Label60 \o Letters(3),
      Label60 \o Letters(4),
      Label60 \o Letters(3) \o << "." >> \o Letters(1),
      Label60 \o Letters(4) \o << "." >> \o Letters(1),
      Letters(1) \o << "." >> \o Label60 \o Letters(4),
      Letters(3) \o Label60,
      Letters(4) \o Label60,
      Label60 \o Letters(3) \o << "%", "2", "E" >> \o Letters(1),
      Letters(1) \o << "%", "2", "E", "%", "2", "E" >> \o Letters(1),
      Label60 \o << "." >> \o Label60 \o << "." >> \o Label60 \o << "." >> \o Label60
          \o << "." >> \o WideLetters(1) }

\* dotted quads: strict ones, and ones with an octet beyond 255 or with a
\* leading zero in an octet of several digits, in first, inner and last position
IPv4Texts ==
    { << "1", ".", "2", ".", "3", ".", "4" >>,
      << "0", ".", "0", ".", "0", ".", "0" >>,
      << "2", "5", "5", ".", "2", "5", "5", ".", "2", "5", "5", ".", "2", "5", "5" >>,
      << "2", "5", "6", ".", "1", ".", "1", ".", "1" >>,
      << "1", "2", "7", ".", "2", "5", "6", ".", "0", ".", "1" >>,
      << "1", ".", "2", ".", "3", ".", "9", "9", "9" >>,
      << "0", "1", ".", "2", ".", "3", ".", "4" >>,
      << "1", "2", "7", ".", "0", "1", "2", "7", ".", "0", ".", "1" >>,
      << "1", ".", "2", ".", "3", ".", "0", "0" >> }

\* the longest text made of delimiters, in characters
MaxDelimiters == 2

\* a letter, the delimiters of the grammar, a sub-delim, and characters that no
\* component accepts
DelimiterChars == { "c", ":", "@", "/", "?", "#", "[", "]", "{", " ", "\\", "!" }

\* texts in which each delimiter stands alone, before and after each other
\* character
DelimiterTexts == StringsUpTo(DelimiterChars, MaxDelimiters) \ { << >> }

ValidatorTexts ==
    (StringsUpTo(TextChars, MaxTextLen) \ { << >> })
    \cup DelimiterTexts
    \cup { p \o e \o q : p \in EscapeAffixes, e \in EscapeTexts, q \in EscapeAffixes }
    \cup PortTexts
    \cup DNSTexts
    \cup IPv4Texts

\* the receivers of validatePath: an empty authority, and authorities with a
\* host only, with a port only and with a userinfo only
PathReceivers ==
    { zeroAuthority,
      [ zeroAuthority EXCEPT !.host = << "h" >> ],
      [ zeroAuthority EXCEPT !.port = << "8" >> ],
      [ zeroAuthority EXCEPT !.userinfo = << "u" >> ] }

\* the schemes of the receivers of validateHost: one that asks for a
\* registered name, one that asks for a DNS name
HostSchemes == { << "u", "r", "n" >>, << "h", "t", "t", "p" >> }

\* the hosts next to which a port is validated
PortHosts == { << >>, << "h" >> }

\* the texts submitted to the call named name on the receiver receiver: a text
\* beyond the length of a DNS name is submitted as a host under a DNS-oriented
\* scheme only, where that length is a limit
submitted(name, receiver) ==
    Len(raw) > maxDomainLength =>
        (name = "validateHost" /\ UsesDNSHostValidation(receiver.scheme))

\* the call named name on the receiver receiver returned err (and ip)
Validated(name, receiver, ip, err) ==
    /\ pc = "start"
    /\ submitted(name, receiver)
    /\ pc' = "validated"
    /\ op' = name
    /\ recv' = receiver
    /\ u' = [ errURI(err) EXCEPT !.authority.ipType = ip ]
    /\ UNCHANGED << raw, mode, nops, str, u2, optionVars >>

DoValidateScheme == Validated("validateScheme", zeroURI, noIP, validateScheme(raw))

DoValidateQuery == Validated("validateQuery", zeroURI, noIP, validateQuery(raw))

DoValidateFragment == Validated("validateFragment", zeroURI, noIP, validateFragment(raw))

DoValidateUserInfo == Validated("validateUserInfo", zeroURI, noIP, validateUserInfo(raw))

DoValidatePath ==
    \E a \in PathReceivers :
        Validated("validatePath", [ zeroURI EXCEPT !.authority = a ], noIP, validatePath(a, raw))

\* the outcome v of validateHost is its address kind and its error
ValidatedHost(receiver, v) == Validated("validateHost", receiver, v.ip, v.err)

DoValidateHost ==
    \E scheme \in HostSchemes, isIPv6 \in BOOLEAN :
        ValidatedHost([ zeroURI EXCEPT !.scheme = scheme, !.authority.ipType.isIPv6 = isIPv6 ],
                      validateHost(raw, isIPv6, scheme, packageLevelDefaults))

DoValidatePort ==
    \E host \in PortHosts :
        Validated("validatePort", [ zeroURI EXCEPT !.authority.host = host ], noIP,
                  validatePort(raw, host))

InitValidate == InitWith(ValidatorTexts)

NextValidate ==
    \/ DoValidateScheme
    \/ DoValidateQuery
    \/ DoValidateFragment
    \/ DoValidateUserInfo
    \/ DoValidatePath
    \/ DoValidateHost
    \/ DoValidatePort

SpecValidate == InitValidate /\ [][NextValidate]_vars

(***************************************************************************)
(* The options of the calls (options.go): goroutines call Parse,            *)
(* ParseReference and a builder method with options; each call has its     *)
(* options applied on a struct, runs, then redeems the struct.              *)
(* SetDefaultOptions is called between calls, as its documentation asks.    *)
(***************************************************************************)

\* the Option that WithReference(enabled) returns
WithReference(enabled) ==
    [ name |-> "WithReference", enabled |-> enabled, fn |-> "nil", flags |-> 0 ]

\* the Option that WithSchemeIsDNSFunc(fn) returns
WithSchemeIsDNSFunc(fn) ==
    [ name |-> "WithSchemeIsDNSFunc", enabled |-> FALSE, fn |-> fn, flags |-> 0 ]

\* the Option that withValidationFlags(flags) returns
validationFlagsOption(flags) ==
    [ name |-> "withValidationFlags", enabled |-> FALSE, fn |-> "nil", flags |-> flags ]

\* apply(o), for the Option apply
applyOption(apply, o) ==
    CASE apply.name = "WithReference" -> [ o EXCEPT !.withURIReference = apply.enabled ]
      [] apply.name = "WithSchemeIsDNSFunc" -> [ o EXCEPT !.schemeIsDNSFunc = apply.fn ]
      [] apply.name = "withValidationFlags" -> withValidationFlags(o, apply.flags)

RECURSIVE applyAll(_, _)
\* for _, apply := range opts { apply(o) }
applyAll(opts, o) ==
    IF Len(opts) = 0 THEN o ELSE applyAll(Tail(opts), applyOption(Head(opts), o))

\* the addresses of the structs that the pool allocates: as many as there are
\* goroutines to hold them
Addresses == { ToString(g) : g \in Goroutines }

\* the pointers to the package-level structs
PackageLevelPointers == { "packageLevelDefaults", "packageLevelReferenceDefaults" }

\* *o, for a pointer o to a package-level struct or to a struct of the pool
deref(o) ==
    IF o = "packageLevelDefaults" THEN packageLevel.Defaults
    ELSE IF o = "packageLevelReferenceDefaults" THEN packageLevel.ReferenceDefaults
    ELSE heap[o]

\* poolOfOptions.Get() returns a: a struct at rest in the pool, or a struct
\* that New allocates
poolGet(a) == a \in poolOfOptions \/ a \in Addresses \ DOMAIN heap

\* the heap once the struct at a holds value
stored(a, value) ==
    [ x \in DOMAIN heap \cup { a } |-> IF x = a THEN value ELSE heap[x] ]

\* borrowURIOptions keeping what the struct at a held when it was redeemed
borrowURIOptionsStale(a) ==
    IF a \in DOMAIN heap THEN heap[a] ELSE packageLevel.Defaults

\* borrowURIOptions: the contents of the struct at a that Get returned, once
\* reset (*o = packageLevelDefaults)
borrowURIOptions(a) == packageLevel.Defaults

\* borrowURIReferenceOptions: *o = packageLevelReferenceDefaults
borrowURIReferenceOptions(a) == packageLevel.ReferenceDefaults

\* the options that their callers give to Parse, ParseReference and the builders
UserOptions ==
    { << >>,
      << WithReference(TRUE) >>,
      << WithSchemeIsDNSFunc("always") >>,
      << WithSchemeIsDNSFunc("never") >> }

\* the options given to SetDefaultOptions
DefaultOptions ==
    { << WithReference(FALSE) >>,
      << WithReference(TRUE) >>,
      << WithSchemeIsDNSFunc("always") >>,
      << WithSchemeIsDNSFunc("never") >> }

\* the inputs of Parse and ParseReference: a host that is a registered name
\* and no DNS name, under a scheme that asks for DNS names, written in lower
\* case and in upper case, and under none; a query that is not valid
OptionInputs ==
    { << "h", "t", "t", "p", ":", "/", "/", "a", "_", "b" >>,
      << "H", "T", "T", "P", ":", "/", "/", "a", "_", "b" >>,
      << "/", "/", "a", "_", "b" >>,
      << "u", "r", "n", ":", "?", "{" >> }

\* the receiver of the builder calls: the value of urn://a_b
builderReceiver ==
    parse(<< "u", "r", "n", ":", "/", "/", "a", "_", "b" >>, packageLevelDefaults)

\* the schemes given to WithScheme
OptionSchemes == { << "h", "t", "t", "p" >> }

\* the calls: their kind, their argument and the options of their caller
Calls ==
    { [ idleCall EXCEPT !.kind = kind, !.arg = arg, !.opts = opts ] :
        kind \in { "Parse", "ParseReference" }, arg \in OptionInputs, opts \in UserOptions }
    \cup { [ idleCall EXCEPT !.kind = "WithScheme", !.arg = arg, !.opts = opts ] :
             arg \in OptionSchemes, opts \in UserOptions }

\* the options that the call c applies: those of its caller, then for a builder
\* method its validation flags (opts = append(opts, withValidationFlags(...)))
appliedOptions(c) ==
    IF c.kind = "WithScheme"
    THEN c.opts \o << validationFlagsOption(flagValidateScheme + flagValidateHost) >>
    ELSE c.opts

\* the goroutine g is in the call c, whose options are in the struct at o
called(g, c, o) == calls' = [ calls EXCEPT ![g] = [ c EXCEPT !.pc = "applied", !.o = o ] ]

\* applyURIOptions(opts) and applyURIReferenceOptions(opts) of the call c of the
\* goroutine g: without options the package-level struct itself, else a struct
\* borrowed from the pool on which the options are applied
applyOptions(g, c, opts) ==
    IF Len(opts) = 0
    THEN /\ called(g, c, IF c.kind = "ParseReference"
                         THEN "packageLevelReferenceDefaults"
                         ELSE "packageLevelDefaults")
         /\ UNCHANGED << packageLevel, heap, poolOfOptions >>
    ELSE \E a \in Addresses :
            /\ poolGet(a)
            /\ heap' = stored(a, applyAll(opts, IF c.kind = "ParseReference"
                                                THEN borrowURIReferenceOptions(a)
                                                ELSE borrowURIOptions(a)))
            /\ poolOfOptions' = poolOfOptions \ { a }
            /\ called(g, c, a)
            /\ UNCHANGED packageLevel

\* the variables of the state machine of the values
valueVars == << raw, mode, pc, u, recv, op, nops, str, u2 >>

\* a goroutine enters Parse, ParseReference or WithScheme, its one call:
\* o, redeem := apply...(opts)
DoApplyOptions ==
    \E g \in Goroutines, c \in Calls :
        /\ calls[g].pc = "idle"
        /\ applyOptions(g, c, appliedOptions(c))
        /\ UNCHANGED valueVars

\* what the call c returns when it runs with the options o
callResult(c, o) ==
    IF c.kind = "WithScheme"
    THEN withValidation([ builderReceiver EXCEPT !.scheme = c.arg ], o)
    ELSE parse(c.arg, o)

\* the body of the call: parse(raw, o), or the assignment and u.validate(o)
DoRun ==
    \E g \in Goroutines :
        /\ calls[g].pc = "applied"
        /\ calls' = [ calls EXCEPT ![g].pc = "ran",
                                   ![g].result = callResult(calls[g], deref(calls[g].o)) ]
        /\ UNCHANGED << packageLevel, heap, poolOfOptions, valueVars >>

\* redeemOptions(o), deferred: the struct goes to the pool, unless it is one of
\* the package-level structs
DoRedeem ==
    \E g \in Goroutines :
        /\ calls[g].pc = "ran"
        /\ poolOfOptions' = IF calls[g].o \in PackageLevelPointers
                            THEN poolOfOptions
                            ELSE poolOfOptions \cup { calls[g].o }
        /\ calls' = [ calls EXCEPT ![g].pc = "returned" ]
        /\ UNCHANGED << packageLevel, heap, valueVars >>

\* SetDefaultOptions(opts...), while no call is in progress
DoSetDefaultOptions ==
    \E opts \in DefaultOptions :
        /\ \A g \in Goroutines : calls[g].pc \in { "idle", "returned" }
        /\ packageLevel' = [ Defaults |-> applyAll(opts, packageLevel.Defaults),
                             ReferenceDefaults |-> applyAll(opts, packageLevel.ReferenceDefaults) ]
        /\ UNCHANGED << heap, poolOfOptions, calls, valueVars >>

InitCalls == InitWith({ << >> }) /\ mode = "uri"

NextCalls ==
    \/ DoApplyOptions
    \/ DoRun
    \/ DoRedeem
    \/ DoSetDefaultOptions

SpecCalls == InitCalls /\ [][NextCalls]_vars

(***************************************************************************)
(* The properties                                                          *)
(***************************************************************************)

\* the components that a URI value exposes
components(v) ==
    [ scheme |-> v.scheme, userinfo |-> v.authority.userinfo, host |-> v.authority.host,
      port |-> v.authority.port, path |-> v.authority.path, query |-> v.query,
      fragment |-> v.fragment ]

\* C1 -- round trip: when Parse (resp. ParseReference) accepts the input, parsing
\* the rendering of the value in the same mode is accepted too, and gives the
\* same scheme, userinfo, host, port, path, query and fragment
C1_RoundTrip ==
    (pc = "reparsed" /\ u.err = nil) =>
        (u2.err = nil /\ components(u2) = components(u))

\* C2 -- sticky error: a builder call on a value that carries an error returns
\* that value unchanged, so the error and the components of the first erroring
\* value survive every later builder call
C2_StickyError ==
    [][(pc = "value" /\ u.err # nil /\ nops' = nops + 1) => u' = u]_vars

\* two builder calls in a row were made on a value that carried an error
C2_Witness ==
    /\ nops = 2
    /\ op \in BuilderOps
    /\ recv.err # nil
    /\ u = recv

\* an escape is complete at the '%' of t[i] when two hex digits follow it
completeEscapeAt(t, i) ==
    i + 2 < Len(t) /\ isHex(Ord(At(t, i + 1))) /\ isHex(Ord(At(t, i + 2)))

\* '%' at the end, '%H', or '%' followed by two characters not both hex digits
hasIncompleteEscape(t) ==
    \E i \in 0..(Len(t) - 1) : At(t, i) = "%" /\ ~completeEscapeAt(t, i)

RECURSIVE escapedBytesFrom(_, _)
\* the bytes of the consecutive complete escapes of t from index i on
escapedBytesFrom(t, i) ==
    IF i < Len(t) /\ At(t, i) = "%" /\ completeEscapeAt(t, i)
    THEN << unhex(Ord(At(t, i + 1))) * 16 + unhex(Ord(At(t, i + 2))) >>
         \o escapedBytesFrom(t, i + 3)
    ELSE << >>

\* in a text whose escapes are all complete: no escape ends right before t[i]
startsEscapeRun(t, i) == At(t, i) = "%" /\ (i < 3 \/ At(t, i - 3) # "%")

\* the length of the UTF-8 sequence that the byte b leads, 0 when it leads none
utf8SequenceLength(b) ==
    CASE b < 128 -> 1
      [] 194 <= b /\ b <= 223 -> 2
      [] 224 <= b /\ b <= 239 -> 3
      [] 240 <= b /\ b <= 244 -> 4
      [] OTHER -> 0

\* the bytes p are the UTF-8 encoding of one scalar value
isScalarEncoding(p) == DecodeRune(p) # RuneError \/ p = << 239, 191, 189 >>

RECURSIVE wellFormedUTF8(_)
\* the bytes are a sequence of well-formed UTF-8 encodings of scalar values
wellFormedUTF8(bytes) ==
    IF Len(bytes) = 0 THEN TRUE
    ELSE /\ utf8SequenceLength(bytes[1]) > 0
         /\ Len(bytes) >= utf8SequenceLength(bytes[1])
         /\ isScalarEncoding(SubSeq(bytes, 1, utf8SequenceLength(bytes[1])))
         /\ wellFormedUTF8(SubSeq(bytes, utf8SequenceLength(bytes[1]) + 1, Len(bytes)))

\* the escapes are complete, and some run of escapes is not well-formed UTF-8
hasIllFormedEscape(t) ==
    /\ ~hasIncompleteEscape(t)
    /\ \E i \in 0..(Len(t) - 1) :
          startsEscapeRun(t, i) /\ ~wellFormedUTF8(escapedBytesFrom(t, i))

hasBadEscape(t) == hasIncompleteEscape(t) \/ hasIllFormedEscape(t)

\* the validator just applied is that of a component in which escapes are
\* allowed: path, query, fragment, userinfo, or a host that is a registered name
escapingValidator ==
    /\ pc = "validated"
    /\ \/ op \in { "validatePath", "validateQuery", "validateFragment", "validateUserInfo" }
       \/ /\ op = "validateHost"
          /\ ~recv.authority.ipType.isIPv6
          /\ ~UsesDNSHostValidation(recv.scheme)

\* the error kind of the component just validated
componentKind ==
    CASE op = "validatePath" -> ErrInvalidPath
      [] op = "validateQuery" -> ErrInvalidQuery
      [] op = "validateFragment" -> ErrInvalidFragment
      [] op = "validateUserInfo" -> ErrInvalidUserInfo
      [] op = "validateHost" -> ErrInvalidHost
      [] op = "validatePort" -> ErrInvalidPort
      [] OTHER -> ErrInvalidScheme

\* the runes that the component just validated accepts besides the unreserved
\* ones, the sub-delims and the escapes
componentExtraRunes ==
    CASE op = "validatePath" -> pcharExtraRunes \cup { Ord(slashMark) }
      [] op \in { "validateQuery", "validateFragment" } -> queryOrFragmentExtraRunes
      [] op = "validateUserInfo" -> userInfoExtraRunes
      [] OTHER -> {}

\* nothing but the escapes of the text can offend the component just
\* validated: its other characters are accepted, and it is not a path that
\* starts with "//" next to an empty host
onlyEscapesOffend ==
    /\ \A i \in 0..(Len(raw) - 1) :
          \/ At(raw, i) = "%"
          \/ isUnreservedOrSubDelims(Ord(At(raw, i)))
          \/ Ord(At(raw, i)) \in componentExtraRunes
    /\ (op = "validatePath" /\ recv.authority.host = << >>) => ~HasPrefix(raw, authorityPrefix)

\* C3 -- strict percent-encoding, as stated: a text of path, query, fragment,
\* userinfo or registered-name host that contains an incomplete escape, or
\* escapes that are not well-formed UTF-8, is rejected with an error that
\* matches the kind of the component and InvalidEscaping
C3_StrictEscaping ==
    (escapingValidator /\ hasBadEscape(raw)) =>
        (componentKind \in u.err /\ ErrInvalidEscaping \in u.err)

\* C3, amended -- such a text is always rejected with the kind of the
\* component; the error matches InvalidEscaping too when nothing but the
\* escapes offends the component
C3_StrictEscapingAlone ==
    (escapingValidator /\ hasBadEscape(raw)) =>
        /\ componentKind \in u.err
        /\ onlyEscapesOffend => ErrInvalidEscaping \in u.err

\* a userinfo of acceptable characters around escapes that are not well-formed
\* UTF-8 has been rejected as InvalidUserInfo and InvalidEscaping
C3_Witness ==
    /\ escapingValidator
    /\ op = "validateUserInfo"
    /\ hasIllFormedEscape(raw)
    /\ onlyEscapesOffend
    /\ Len(raw) > 6
    /\ { ErrInvalidUserInfo, ErrInvalidEscaping } \subseteq u.err

\* the input is rejected for the places of its first ':', '?' and '#' before
\* any scheme is looked for: one of them starts the input or is its second
\* character, or a '?' or '#' comes before the first ':'
earlyRejection(s) ==
    \/ IndexByte(s, ":") \in { 0, 1 }
    \/ IndexByte(s, "?") \in { 0, 1 }
    \/ IndexByte(s, "#") \in { 0, 1 }
    \/ (IndexByte(s, "?") > 0 /\ IndexByte(s, "?") < IndexByte(s, ":"))
    \/ (IndexByte(s, "#") > 0 /\ IndexByte(s, "#") < IndexByte(s, ":"))

\* the input begins with "//" or contains no ':'
lacksScheme(s) == HasPrefix(s, << "/", "/" >>) \/ IndexByte(s, ":") < 0

\* the input up to its first '?' or '#'
upToMark(s) ==
    SubSeq(s, 1, CHOOSE n \in 0..Len(s) :
                    /\ \A i \in 1..n : s[i] \notin { "?", "#" }
                    /\ (n < Len(s) => s[n + 1] \in { "?", "#" }))

\* the case of C4: Parse or ParseReference has returned on an input that lacks
\* a scheme and that no earlier structural rejection applies to
schemeLacking == pc = "value" /\ op = "Parse" /\ lacksScheme(raw) /\ ~earlyRejection(raw)

\* C4 -- scheme requirement, as stated: such an input is rejected with
\* NoSchemeFound by Parse, and ParseReference accepts it with an empty scheme
\* and the input up to '?' or '#' as hier-part
C4_SchemeRequirement ==
    schemeLacking =>
        IF mode = "uri"
        THEN ErrNoSchemeFound \in u.err
        ELSE u.err = nil /\ u.scheme = << >> /\ u.hierPart = upToMark(raw)

\* C4, amended -- Parse rejects such an input with NoSchemeFound; ParseReference
\* never does: the scheme is empty, the hier-part is the input up to '?' or
\* '#' unless the split of the authority fails (InvalidURI), and the input is
\* accepted unless that split or the validator of a component other than the
\* scheme rejects it
C4_SchemeRequirementReference ==
    schemeLacking =>
        IF mode = "uri"
        THEN ErrNoSchemeFound \in u.err
        ELSE /\ ErrNoSchemeFound \notin u.err
             /\ u.scheme = << >>
             /\ ErrInvalidURI \notin u.err => u.hierPart = upToMark(raw)
             /\ u.err # nil =>
                    u.err \cap { ErrInvalidURI, ErrInvalidPath, ErrInvalidHost, ErrInvalidPort,
                                 ErrMissingHost, ErrInvalidUserInfo, ErrInvalidQuery,
                                 ErrInvalidFragment } # {}

\* ParseReference has accepted an input that begins with "//" and holds a ':',
\* with an empty scheme, a host, a port and a query
C4_Witness ==
    /\ schemeLacking
    /\ mode = "reference"
    /\ HasPrefix(raw, << "/", "/" >>)
    /\ u.err = nil
    /\ u.scheme = << >>
    /\ u.authority.host # << >>
    /\ u.hierPart = upToMark(raw)
    /\ Len(u.hierPart) < Len(raw)

\* the text between the first '?' and the first '#' (or the end of the input)
\* when that '?' precedes the first '#', the empty text otherwise
queryOf(s) ==
    IF IndexByte(s, "?") >= 0 /\ (IndexByte(s, "#") < 0 \/ IndexByte(s, "?") < IndexByte(s, "#"))
    THEN SubSeq(s, IndexByte(s, "?") + 2,
                IF IndexByte(s, "#") < 0 THEN Len(s) ELSE IndexByte(s, "#"))
    ELSE << >>

\* everything after the first '#'
fragmentOf(s) ==
    IF IndexByte(s, "#") >= 0 THEN SubSeq(s, IndexByte(s, "#") + 2, Len(s)) ELSE << >>

\* C5 -- component slicing: the query of an accepted input is the text
\* between its first '?' and its first '#' (or its end) when that '?' precedes
\* the first '#', and is empty otherwise; its fragment is everything after the
\* first '#', a '?' after the first '#' included
C5_ComponentSlicing ==
    (pc = "value" /\ op = "Parse" /\ u.err = nil) =>
        (u.query = queryOf(raw) /\ u.fragment = fragmentOf(raw))

\* an accepted input with a query, and with a '?' in its fragment
C5_Witness ==
    /\ pc = "value"
    /\ op = "Parse"
    /\ u.err = nil
    /\ u.query # << >>
    /\ IndexByte(u.fragment, "?") >= 0
    /\ u.query = queryOf(raw)
    /\ u.fragment = fragmentOf(raw)

\* ALPHA and DIGIT
asciiLetters ==
    { "a", "b", "c", "d", "e", "f", "g", "h", "i", "j", "k", "l", "m",
      "n", "o", "p", "q", "r", "s", "t", "u", "v", "w", "x", "y", "z",
      "A", "B", "C", "D", "E", "F", "G", "H", "I", "J", "K", "L", "M",
      "N", "O", "P", "Q", "R", "S", "T", "U", "V", "W", "X", "Y", "Z" }

asciiDigits == { "0", "1", "2", "3", "4", "5", "6", "7", "8", "9" }

\* at least 2 bytes, the first an ASCII letter, every further one an ASCII
\* letter, an ASCII digit, '+', '-' or '.'
schemeGrammar(t) ==
    /\ Len(t) >= 2
    /\ t[1] \in asciiLetters
    /\ \A i \in 2..Len(t) : t[i] \in asciiLetters \cup asciiDigits \cup { "+", "-", "." }

\* C6 -- scheme grammar: a non-empty scheme is accepted if and only if it has
\* at least 2 bytes, starts with an ASCII letter and goes on with ASCII letters,
\* ASCII digits, '+', '-' or '.'; any other scheme fails with InvalidScheme
C6_SchemeGrammar ==
    (pc = "validated" /\ op = "validateScheme") =>
        /\ u.err = nil <=> schemeGrammar(raw)
        /\ u.err # nil => ErrInvalidScheme \in u.err

\* a scheme with a '+' and a digit has been accepted
C6_Witness ==
    /\ pc = "validated"
    /\ op = "validateScheme"
    /\ u.err = nil
    /\ \E i \in 2..Len(raw) : raw[i] = "+"
    /\ \E i \in 2..Len(raw) : raw[i] \in asciiDigits

\* the errors of the validators of the components of the value v, each on its
\* own, in the canonical order scheme, query, fragment, path, host, port,
\* userinfo (nil for an empty component); the authority is that of the split of
\* the hier-part
componentErrs(v, a) ==
    << IF v.scheme # << >> THEN validateScheme(v.scheme) ELSE nil,
       IF v.query # << >> THEN validateQuery(v.query) ELSE nil,
       IF v.fragment # << >> THEN validateFragment(v.fragment) ELSE nil,
       IF a.path # << >> THEN validatePath(a, a.path) ELSE nil,
       IF a.host # << >> THEN validateHost(a.host, a.ipType.isIPv6, v.scheme, packageLevelDefaults).err ELSE nil,
       IF a.port # << >> THEN validatePort(a.port, a.host) ELSE nil,
       IF a.userinfo # << >> THEN validateUserInfo(a.userinfo) ELSE nil >>

\* the error of the first offending component, nil when none offends
firstOffence(errs) ==
    IF \A i \in 1..Len(errs) : errs[i] = nil
    THEN nil
    ELSE errs[CHOOSE i \in 1..Len(errs) : errs[i] # nil /\ \A j \in 1..(i - 1) : errs[j] = nil]

\* the number of offending components
offending(errs) == Cardinality({ i \in 1..Len(errs) : errs[i] # nil })

\* the parse has decomposed the input: it did not stop on the places of the
\* marks, on a missing scheme or on the split of the authority
hasDecomposed ==
    /\ pc = "value"
    /\ op = "Parse"
    /\ ~(u.err # nil /\ u.scheme = << >> /\ u.hierPart = << >>)

replacedComponentErr ==
    CASE op = "WithScheme" -> validateScheme(u.scheme)
      [] op = "WithUserInfo" -> validateUserInfo(u.authority.userinfo)
      [] op = "WithHost" ->
            validateHost(u.authority.host, recv.authority.ipType.isIPv6, u.scheme,
                         packageLevelDefaults).err
      [] op = "WithPort" -> validatePort(u.authority.port, u.authority.host)
      [] op = "WithPath" -> validatePath(u.authority, u.authority.path)
      [] op = "WithQuery" -> validateQuery(u.query)
      [] op = "WithFragment" -> validateFragment(u.fragment)
      [] OTHER -> nil

\* C8 -- builder re-validation: a builder call that replaces a component of an
\* error-free value with a text that the validator of the component rejects
\* returns a value whose Err() is not nil and, for a component of the
\* authority, whose Authority().Err() is not nil either
C8_BuilderRevalidation ==
    (pc = "value" /\ nops >= 1 /\ recv.err = nil /\ replacedComponentErr # nil) =>
        /\ u.err # nil
        /\ op \in { "WithUserInfo", "WithHost", "WithPort", "WithPath" } => Authority(u).err # nil

\* the components that a builder method replaces
targets(name) ==
    CASE name = "WithScheme" -> { "scheme" }
      [] name = "WithAuthority" -> { "userinfo", "host", "port", "path" }
      [] name = "WithUserInfo" -> { "userinfo" }
      [] name = "WithHost" -> { "host" }
      [] name = "WithPort" -> { "port" }
      [] name \in { "WithPath", "WithJoinPath" } -> { "path" }
      [] name = "WithQuery" -> { "query" }
      [] name = "WithFragment" -> { "fragment" }
      [] OTHER -> {}

\* C9 -- builder frame: a builder call leaves its receiver as it was and, when
\* it succeeds, returns a value whose components other than those it replaces
\* are those of the receiver
C9_BuilderFrame ==
    [][(pc = "value" /\ nops' = nops + 1) =>
          /\ recv' = u
          /\ u'.err = nil =>
                \A c \in (DOMAIN components(u)) \ targets(op') :
                    components(u')[c] = components(u)[c]]_vars

\* WithHost has succeeded on a value with a userinfo, a port, a path, a query
\* and a fragment, and has changed the host only
C9_Witness ==
    /\ pc = "value"
    /\ op = "WithHost"
    /\ u.err = nil
    /\ recv.err = nil
    /\ u.authority.host # recv.authority.host
    /\ u.authority.port # << >>
    /\ u.authority.path # << >>
    /\ u.query # << >>
    /\ u.fragment # << >>
    /\ \A c \in (DOMAIN components(u)) \ { "host" } : components(u)[c] = components(recv)[c]

\* C10 -- empty query and fragment rendering: an accepted input that ends with
\* an explicit '?' or '#' renders back with the same trailing delimiter
C10_EmptyRendering ==
    (pc = "rendered" /\ op = "Parse" /\ u.err = nil /\ raw # << >>
        /\ raw[Len(raw)] \in { "?", "#" }) =>
        (str # << >> /\ str[Len(str)] = raw[Len(raw)])
\* the text t occurs in s
occursIn(t, s) ==
    \E i \in 0..(Len(s) - Len(t)) : Slice(s, i, i + Len(t)) = t

\* the value that the input was parsed into, before any builder call
parsedValue == parseIn(mode, raw)

\* the host of the value rendered is the IPv6 or IPvFuture literal that the
\* input held in brackets: no builder call has replaced it
hostFromBrackets ==
    /\ parsedValue.err = nil
    /\ parsedValue.authority.ipType.isIPv6
    /\ u.err = nil
    /\ u.authority.host = parsedValue.authority.host

\* C11 -- IPv6 bracket rendering: String() encloses in '[' ']' a host that was
\* parsed from brackets, also in the values that builder calls which do not
\* replace the host have derived from the parsed one
C11_BracketRendering ==
    (pc = "rendered" /\ hostFromBrackets) =>
        occursIn(<< openingBracketMark >> \o u.authority.host \o << closingBracketMark >>, str)
\* the userinfo, the host or the port of the value v is not empty
hasAuthorityPart(v) ==
    v.authority.userinfo # << >> \/ v.authority.host # << >> \/ v.authority.port # << >>

\* C12 -- authority prefix invariant: in every value that Parse or a builder
\* call has produced, the userinfo, the host or the port is non-empty only if
\* the prefix of the authority is "//", and the rendering of such a value
\* holds "//"
C12_AuthorityPrefix ==
    /\ hasAuthorityPart(u) => u.authority.prefix = authorityPrefix
    /\ (pc = "rendered" /\ hasAuthorityPart(u)) => occursIn(authorityPrefix, str)
\* every non-empty segment of the path is a sequence of pchar
validSegments(path) ==
    \A k \in 1..Len(Split(path, slashMark)) :
        \/ Split(path, slashMark)[k] = << >>
        \/ validateUnreservedWithExtra(Split(path, slashMark)[k], pcharExtraRunes) = nil

\* validatePath has returned on a path that begins with two '/'
doubleSlashPath == pc = "validated" /\ op = "validatePath" /\ HasPrefix(raw, authorityPrefix)

\* C13 -- path "//" rule: a path that begins with two '/' is rejected with
\* InvalidPath when the host, the port and the userinfo are all empty; when one
\* of the three is not empty it is accepted if and only if its segments are
\* valid
C13_PathDoubleSlash ==
    doubleSlashPath =>
        IF hasAuthorityPart(recv)
        THEN u.err = nil <=> validSegments(raw)
        ELSE ErrInvalidPath \in u.err
\* the text is made of ASCII decimal digits only
allDigits(t) == \A i \in 1..Len(t) : t[i] \in asciiDigits

RECURSIVE withoutLeadingZeros(_)
\* the digits of t from its first non-zero digit on
withoutLeadingZeros(t) ==
    IF Len(t) > 0 /\ t[1] = "0" THEN withoutLeadingZeros(Tail(t)) ELSE t

\* the value of the digit d
digitValue(d) == CHOOSE n \in 0..9 : ToString(n) = d

RECURSIVE decimalOf(_)
\* the value of a short text of digits
decimalOf(t) ==
    IF Len(t) = 0 THEN 0
    ELSE decimalOf(SubSeq(t, 1, Len(t) - 1)) * 10 + digitValue(t[Len(t)])

\* the decimal value of the digits t, however many, is at most 65535
portInRange(t) ==
    /\ Len(withoutLeadingZeros(t)) <= 5
    /\ decimalOf(withoutLeadingZeros(t)) <= 65535

\* validatePort has returned on the port raw, next to the host of recv
portValidated == pc = "validated" /\ op = "validatePort"

\* C14 -- port validation, as stated: a non-empty port is accepted if and only
\* if it is made of ASCII digits, its value is at most 65535 and the host is
\* not empty; a non-digit or a value above 65535 yields InvalidPort, and an
\* all-digit port with an empty host yields MissingHost
C14_PortValidation ==
    portValidated =>
        /\ u.err = nil <=> (allDigits(raw) /\ portInRange(raw) /\ recv.authority.host # << >>)
        /\ (~allDigits(raw) \/ ~portInRange(raw)) => ErrInvalidPort \in u.err
        /\ (allDigits(raw) /\ recv.authority.host = << >>) => ErrMissingHost \in u.err

\* C14, amended -- a value above 65535 yields InvalidPort when the host is
\* not empty; an all-digit port with an empty host yields MissingHost whatever
\* its value
C14_PortValidationHostFirst ==
    portValidated =>
        /\ u.err = nil <=> (allDigits(raw) /\ portInRange(raw) /\ recv.authority.host # << >>)
        /\ ~allDigits(raw) => ErrInvalidPort \in u.err
        /\ (allDigits(raw) /\ ~portInRange(raw) /\ recv.authority.host # << >>) =>
              ErrInvalidPort \in u.err
        /\ (allDigits(raw) /\ recv.authority.host = << >>) =>
              (ErrMissingHost \in u.err /\ ErrInvalidPort \notin u.err)

\* a port of twenty digits, whose value does not fit 64 bits, has been rejected
\* as InvalidPort next to a host
C14_Witness ==
    /\ portValidated
    /\ allDigits(raw)
    /\ Len(withoutLeadingZeros(raw)) = 20
    /\ raw[Len(raw)] = "6"
    /\ recv.authority.host # << >>
    /\ ErrInvalidPort \in u.err
RECURSIVE scalarsOf(_)
\* the scalars of a text whose escapes are well-formed, after percent-decoding
scalarsOf(t) ==
    IF Len(t) = 0 THEN << >>
    ELSE IF t[1] = "%"
    THEN << DecodeRune(SubSeq(escapedBytesFrom(t, 0), 1,
                              utf8SequenceLength(escapedBytesFrom(t, 0)[1]))) >>
         \o scalarsOf(SubSeq(t, 3 * utf8SequenceLength(escapedBytesFrom(t, 0)[1]) + 1, Len(t)))
    ELSE << Ord(t[1]) >> \o scalarsOf(Tail(t))

RECURSIVE labelsOf(_)
\* the labels of a sequence of scalars: what its '.' separate
labelsOf(scalars) ==
    IF \E k \in 1..Len(scalars) : scalars[k] = Ord(dotSeparator)
    THEN LET k == CHOOSE k \in 1..Len(scalars) :
                     /\ scalars[k] = Ord(dotSeparator)
                     /\ \A j \in 1..(k - 1) : scalars[j] # Ord(dotSeparator)
         IN  << SubSeq(scalars, 1, k - 1) >> \o labelsOf(SubSeq(scalars, k + 1, Len(scalars)))
    ELSE << scalars >>

\* a letter or a digit
isLetterOrDigit(r) == unicodeIsLetter(r) \/ unicodeIsDigit(r)

\* a non-empty label abides by the grammar: an ASCII letter first, then letters,
\* digits or '-', a letter or a digit last
labelGrammar(label) ==
    /\ isASCIILetter(label[1])
    /\ \A k \in 2..Len(label) : isLetterOrDigit(label[k]) \/ label[k] = Ord("-")
    /\ isLetterOrDigit(label[Len(label)])

\* validateHost has returned on a host that is not an IP literal, under a
\* DNS-oriented scheme, and the escapes of the host are well-formed
dnsHostValidated ==
    /\ pc = "validated"
    /\ op = "validateHost"
    /\ UsesDNSHostValidation(recv.scheme)
    /\ ~recv.authority.ipType.isIPv6
    /\ ~u.authority.ipType.isIPv4
    /\ ~hasBadEscape(raw)

\* C15 -- DNS label grammar: under a DNS-oriented scheme, a host with a label
\* that does not start with an ASCII letter, that holds a scalar other than a
\* letter, a digit or '-', or that does not end with a letter or a digit, fails
\* with InvalidDNSName
C15_DNSLabelGrammar ==
    (dnsHostValidated
        /\ \E k \in 1..Len(labelsOf(scalarsOf(raw))) :
              /\ labelsOf(scalarsOf(raw))[k] # << >>
              /\ ~labelGrammar(labelsOf(scalarsOf(raw))[k])) =>
        ErrInvalidDNSName \in u.err
\* the width in bytes of what starts the text t, whose escapes are well-formed:
\* one character, or the escapes of one scalar
leadWidth(t) ==
    IF t[1] = "%" THEN 3 * utf8SequenceLength(escapedBytesFrom(t, 0)[1]) ELSE 1

RECURSIVE labelBytes(_, _)
\* the lengths in bytes of the labels of the raw host t, whose escapes are
\* well-formed: what its '.', escaped or not, separate; cur is the length of
\* the label being read
labelBytes(t, cur) ==
    IF Len(t) = 0 THEN << cur >>
    ELSE IF scalarsOf(SubSeq(t, 1, leadWidth(t))) = << Ord(dotSeparator) >>
    THEN << cur >> \o labelBytes(SubSeq(t, leadWidth(t) + 1, Len(t)), 0)
    ELSE labelBytes(SubSeq(t, leadWidth(t) + 1, Len(t)), cur + leadWidth(t))

\* the host is longer than 255 bytes, or has a label longer than 63 bytes, or
\* has an empty label
beyondDNSLimits(t) ==
    \/ Len(t) > 255
    \/ \E k \in 1..Len(labelBytes(t, 0)) :
          labelBytes(t, 0)[k] > 63 \/ labelBytes(t, 0)[k] = 0

\* C16 -- DNS length limits: under a DNS-oriented scheme, a host longer than
\* 255 bytes, or with a label longer than 63 bytes, or with an empty label
\* (leading, consecutive or trailing '.', escaped or not) fails with
\* InvalidDNSName, the lengths being those of the raw host
C16_DNSLengthLimits ==
    (dnsHostValidated /\ beyondDNSLimits(raw)) => ErrInvalidDNSName \in u.err

\* a host of 256 bytes whose labels have at most 63 bytes each has been
\* rejected as an invalid DNS name
C16_Witness ==
    /\ dnsHostValidated
    /\ Len(raw) = 256
    /\ \A k \in 1..Len(labelBytes(raw, 0)) :
          labelBytes(raw, 0)[k] > 0 /\ labelBytes(raw, 0)[k] <= 63
    /\ ErrInvalidDNSName \in u.err
\* the text is a dotted quad, four runs of digits separated by '.', one of which
\* is worth more than 255 or has several digits the first of which is 0
invalidDottedQuad(t) ==
    /\ Len(Split(t, dotSeparator)) = 4
    /\ \A k \in 1..4 : Len(Split(t, dotSeparator)[k]) > 0 /\ allDigits(Split(t, dotSeparator)[k])
    /\ \E k \in 1..4 :
          \/ ~( /\ Len(withoutLeadingZeros(Split(t, dotSeparator)[k])) <= 3
                /\ decimalOf(withoutLeadingZeros(Split(t, dotSeparator)[k])) <= 255 )
          \/ Len(Split(t, dotSeparator)[k]) > 1 /\ Split(t, dotSeparator)[k][1] = "0"

\* C17 -- invalid IPv4 literals: a host that is a dotted quad with an octet
\* greater than 255, or with a leading zero in an octet of several digits, is
\* rejected with InvalidHost, whatever the scheme
C17_InvalidIPv4 ==
    ( /\ pc = "validated"
      /\ op = "validateHost"
      /\ ~recv.authority.ipType.isIPv6
      /\ invalidDottedQuad(raw) ) => ErrInvalidHost \in u.err
\* the predicate supplied to the call c: by its option WithSchemeIsDNSFunc, else
\* by the package-level defaults
suppliedPredicate(c) ==
    IF \E k \in 1..Len(c.opts) : c.opts[k].name = "WithSchemeIsDNSFunc"
    THEN c.opts[CHOOSE k \in 1..Len(c.opts) : c.opts[k].name = "WithSchemeIsDNSFunc"].fn
    ELSE packageLevel.Defaults.schemeIsDNSFunc

\* what the predicate fn returns on the scheme
returnsTrue(fn, scheme) ==
    CASE fn = "always" -> TRUE
      [] fn = "never" -> FALSE
      [] OTHER -> UsesDNSHostValidation(scheme)

\* the error of a host, no IP address, validated as a DNS name when dns is
\* true and as a registered name when it is false
hostErrAs(dns, host) ==
    hostResult(noIP, ErrInvalidHost,
               registeredHostAfterDNS(host, IF dns THEN validateDNSHostForScheme(host) ELSE nil)).err

\* C18 -- replaceable scheme classifier: the predicate supplied to a call, as
\* an option of the call or through SetDefaultOptions, decides which validation
\* its host gets: that of the DNS names for a scheme on which the predicate
\* returns true, that of the registered names otherwise (the other components
\* of the inputs that have a host are valid)
C18_SchemeClassifier ==
    \A g \in Goroutines :
        (calls[g].pc = "ran" /\ calls[g].result.authority.host # << >>) =>
            calls[g].result.err =
                hostErrAs(returnsTrue(suppliedPredicate(calls[g]), calls[g].result.scheme),
                          calls[g].result.authority.host)

\* C19 -- ParseReference(raw) and Parse(raw, WithReference(true)), called under
\* the same package defaults, whatever SetDefaultOptions made of them, return
\* the same value and the same error
C19_ParseReferenceEquivalence ==
    \A g, h \in Goroutines :
        ( /\ calls[g].pc = "ran"
          /\ calls[h].pc = "ran"
          /\ calls[g].kind = "ParseReference"
          /\ calls[g].opts = << >>
          /\ calls[h].kind = "Parse"
          /\ calls[h].opts = << WithReference(TRUE) >>
          /\ calls[g].arg = calls[h].arg ) => calls[g].result = calls[h].result

\* the package-level defaults of the call c
defaultsOf(c) ==
    IF c.kind = "ParseReference" THEN packageLevel.ReferenceDefaults ELSE packageLevel.Defaults

\* the goroutine g is in a call, between the borrowing and the redeeming of
\* its options
inCall(g) == calls[g].pc \in { "applied", "ran" }

errorsIs(err, kind) == kind \in err

\* Parse(raw) has returned u and u.Err(): each return statement of parse
\* returns a value together with the err field of that value
parseReturned == pc = "value" /\ op = "Parse" /\ mode = "uri"

\* C21 -- error surface, as claimed: unless the error of Parse is an
\* InvalidQuery, InvalidScheme or InvalidURI error, it equals Authority().Err()
\* of the returned value
C21_ErrorSurface ==
    ( /\ parseReturned
      /\ ~errorsIs(u.err, ErrInvalidQuery)
      /\ ~errorsIs(u.err, ErrInvalidScheme)
      /\ ~errorsIs(u.err, ErrInvalidURI) ) => Authority(u).err = u.err

\* C21 -- error surface, amended: unless the error of Parse is an
\* InvalidQuery, InvalidScheme, InvalidURI or NoSchemeFound error, it equals
\* Authority().Err() of the returned value
C21_ErrorSurfaceDecomposed ==
    ( /\ parseReturned
      /\ ~errorsIs(u.err, ErrInvalidQuery)
      /\ ~errorsIs(u.err, ErrInvalidScheme)
      /\ ~errorsIs(u.err, ErrInvalidURI)
      /\ ~errorsIs(u.err, ErrNoSchemeFound) ) => Authority(u).err = u.err

\* Parse has returned an InvalidFragment error, which the authority of the
\* value carries too
C21_Witness ==
    /\ parseReturned
    /\ errorsIs(u.err, ErrInvalidFragment)
    /\ Authority(u).err = u.err

(***************************************************************************)
(* C22: the characters of each component                                   *)
(***************************************************************************)

\* unreserved and sub-delims among the ASCII characters
asciiUnreservedOrSubDelims ==
    asciiLetters \cup asciiDigits
    \cup { "-", ".", "_", "~" }
    \cup { "!", "$", "&", "'", "(", ")", "*", "+", ",", ";", "=" }

\* the extra characters listed for the component just validated; in a path,
\* '/' separates the segments
listedExtras ==
    CASE op = "validatePath" -> { ":", "@", "/" }
      [] op \in { "validateQuery", "validateFragment" } -> { ":", "@", "/", "?" }
      [] op = "validateUserInfo" -> { ":" }
      [] OTHER -> {}

\* the validator of a component has been applied on a text without escapes,
\* which is not a path starting with "//"
charactersValidated ==
    /\ escapingValidator
    /\ \A i \in 0..(Len(raw) - 1) : At(raw, i) # percentMark
    /\ op = "validatePath" => ~HasPrefix(raw, authorityPrefix)

\* C22 -- per-component character sets: a text without escapes is accepted by
\* the validator of a component if and only if each of its characters is
\* unreserved, a sub-delim or one of the extra characters listed for the
\* component (path segment ':' '@'; query and fragment ':' '@' '/' '?';
\* userinfo ':'; registered name none); otherwise the error is of the kind of
\* the component
C22_ComponentCharacters ==
    charactersValidated =>
        /\ u.err = nil <=>
              \A i \in 0..(Len(raw) - 1) :
                  At(raw, i) \in asciiUnreservedOrSubDelims \cup listedExtras
        /\ u.err # nil => componentKind \in u.err

(***************************************************************************)
(* C23: a DNS label that begins with a digit                               *)
(***************************************************************************)

\* "http://", a DNS-oriented scheme and the authority prefix
httpAuthority == << "h", "t", "t", "p", ":", "/", "/" >>

\* Parse has returned on "http://" followed by a host of one label made of
\* ASCII letters and digits, with a letter in it, that begins with a digit
digitLedHostParsed ==
    /\ parseReturned
    /\ HasPrefix(raw, httpAuthority)
    /\ Len(raw) > Len(httpAuthority)
    /\ \A i \in Len(httpAuthority)..(Len(raw) - 1) : At(raw, i) \in asciiLetters \cup asciiDigits
    /\ \E i \in Len(httpAuthority)..(Len(raw) - 1) : At(raw, i) \in asciiLetters
    /\ At(raw, Len(httpAuthority)) \in asciiDigits

\* C23 -- under a DNS-oriented scheme, a host whose labels consist of letters
\* and digits, one of them starting with a digit, is accepted by Parse
C23_DigitLedLabel == digitLedHostParsed => u.err = nil

(***************************************************************************)
(* C24: the structural rejections of the decomposer                        *)
(***************************************************************************)

\* the first c of s is at index i
firstAt(s, c, i) == i < Len(s) /\ At(s, i) = c /\ \A j \in 0..(i - 1) : At(s, j) # c

\* a c of s comes before the first ':' of s
beforeFirstColon(s, c) ==
    \E k \in 0..(Len(s) - 1) : firstAt(s, colonMark, k) /\ \E i \in 0..(k - 1) : At(s, i) = c

\* the kind of the structural rejection of s, "none" if there is none: the
\* checks on the places of the first ':', '?' and '#', in their order
structuralKind(s) ==
    IF \E c \in { colonMark, questionMark, fragmentMark } : firstAt(s, c, 0)
    THEN ErrInvalidURI
    ELSE IF firstAt(s, colonMark, 1)
    THEN ErrInvalidScheme
    ELSE IF firstAt(s, questionMark, 1) \/ firstAt(s, fragmentMark, 1)
    THEN ErrInvalidURI
    ELSE IF beforeFirstColon(s, questionMark) \/ beforeFirstColon(s, fragmentMark)
    THEN ErrInvalidURI
    ELSE "none"

decoderCalled ==
    /\ pc = "validated"
    /\ op = "validateQuery"
    /\ Len(raw) >= 2
    /\ At(raw, 0) = percentMark

\* the number of groups that the first byte b demands
groupsDemanded(b) ==
    IF b >= 240 THEN 4 ELSE IF b >= 224 THEN 3 ELSE IF b >= 192 THEN 2 ELSE 1

\* the scalar value of which p is the UTF-8 encoding
scalarEncoded(p) ==
    CASE Len(p) = 1 -> p[1]
      [] Len(p) = 2 -> (p[1] % 32) * 64 + (p[2] % 64)
      [] Len(p) = 3 -> (p[1] % 16) * 4096 + (p[2] % 64) * 64 + (p[3] % 64)
      [] OTHER -> (p[1] % 8) * 262144 + (p[2] % 64) * 4096 + (p[3] % 64) * 64 + (p[4] % 64)

\* the groups at the start of the text are the UTF-8 encoding of one scalar
startsWithScalar(t) ==
    /\ escapedBytesFrom(t, 0) # << >>
    /\ utf8SequenceLength(escapedBytesFrom(t, 0)[1]) > 0
    /\ Len(escapedBytesFrom(t, 0)) >= utf8SequenceLength(escapedBytesFrom(t, 0)[1])
    /\ isScalarEncoding(SubSeq(escapedBytesFrom(t, 0), 1,
                               utf8SequenceLength(escapedBytesFrom(t, 0)[1])))

\* C25 -- percent-decoder result: on the text that follows an opening '%',
\* unescapePercentEncoding accepts k = 1..4 groups whose bytes are the UTF-8
\* encoding of one Unicode scalar, returns that scalar and consumes 3k-1 bytes;
\* it fails when fewer groups follow than the first byte demands (two from
\* 0xC0, three from 0xE0, four from 0xF0)
C25_DecoderResult ==
    decoderCalled =>
        /\ startsWithScalar(raw) =>
              /\ unescapePercentEncoding(SliceFrom(raw, 1)).err = nil
              /\ unescapePercentEncoding(SliceFrom(raw, 1)).rune =
                     scalarEncoded(SubSeq(escapedBytesFrom(raw, 0), 1,
                                          utf8SequenceLength(escapedBytesFrom(raw, 0)[1])))
              /\ unescapePercentEncoding(SliceFrom(raw, 1)).offset =
                     3 * utf8SequenceLength(escapedBytesFrom(raw, 0)[1]) - 1
        /\ ( /\ escapedBytesFrom(raw, 0) # << >>
             /\ Len(escapedBytesFrom(raw, 0)) < groupsDemanded(escapedBytesFrom(raw, 0)[1]) ) =>
              unescapePercentEncoding(SliceFrom(raw, 1)).err # nil

(***************************************************************************)
(* C26: the kind of the failures of the DNS host validator                 *)
(***************************************************************************)

\* validateHost has returned on a host that is not an IP literal, under a
\* DNS-oriented scheme, and the DNS host validator has failed on it
dnsHostFailed ==
    /\ pc = "validated"
    /\ op = "validateHost"
    /\ UsesDNSHostValidation(recv.scheme)
    /\ ~recv.authority.ipType.isIPv6
    /\ validateIPv4(raw) # nil
    /\ validateDNSHostForScheme(raw) # nil

\* C26 -- every failure of the DNS host validator, an incomplete or invalid
\* escape at the first position of a label or inside a label included, yields
\* an error that matches InvalidDNSName
C26_DNSFailureKind == dnsHostFailed => errorsIs(u.err, ErrInvalidDNSName)

(***************************************************************************)
(* C27: the split of the authority                                         *)
(***************************************************************************)

\* the index of the last c of s, -1 if there is none
lastIndexOf(s, c) ==
    IF \E i \in 0..(Len(s) - 1) : At(s, i) = c
    THEN CHOOSE i \in 0..(Len(s) - 1) :
             At(s, i) = c /\ \A j \in (i + 1)..(Len(s) - 1) : At(s, j) # c
    ELSE -1

\* the authority of a hier-part that begins with "//": what follows "//", up
\* to the first '/'
authorityOf(hier) ==
    IF IndexByte(SliceFrom(hier, 2), slashMark) >= 0
    THEN Slice(hier, 2, 2 + IndexByte(SliceFrom(hier, 2), slashMark))
    ELSE SliceFrom(hier, 2)

\* the userinfo of an authority: the text before its '@', if it has one
userinfoOf(authority) ==
    IF IndexByte(authority, atHost) >= 0
    THEN Slice(authority, 0, IndexByte(authority, atHost))
    ELSE << >>

\* the host region of an authority: the text after its '@', if it has one
hostRegionOf(authority) == SliceFrom(authority, IndexByte(authority, atHost) + 1)

\* Parse or ParseReference has split an authority whose host region does not
\* start with '['
authoritySplit ==
    /\ pc = "value"
    /\ op = "Parse"
    /\ u.authority.prefix = authorityPrefix
    /\ ~HasPrefix(hostRegionOf(authorityOf(u.hierPart)), << openingBracketMark >>)

\* C27 -- authority split: the userinfo is the text before the '@' and the host
\* region the text after it, also when one of them is empty; the final ':' of
\* the host region separates the host from the port
C27_AuthoritySplit ==
    authoritySplit =>
        LET region == hostRegionOf(authorityOf(u.hierPart))
        IN  /\ u.authority.userinfo = userinfoOf(authorityOf(u.hierPart))
            /\ u.authority.host =
                  IF lastIndexOf(region, colonMark) >= 0
                  THEN Slice(region, 0, lastIndexOf(region, colonMark))
                  ELSE region
            /\ u.authority.port =
                  IF lastIndexOf(region, colonMark) >= 0
                  THEN SliceFrom(region, lastIndexOf(region, colonMark) + 1)
                  ELSE << >>

(***************************************************************************)
(* C28: the closure of the builders under rendering and parsing            *)
(***************************************************************************)

\* an error-free value obtained from a successful Parse and at least one
\* builder call has been rendered, and its rendering parsed
builtValueReparsed ==
    /\ pc = "reparsed"
    /\ mode = "uri"
    /\ nops >= 1
    /\ u.err = nil

\* C28 -- builder closure: for every error-free value v obtained from a
\* successful Parse followed by builder calls, Parse(v.String()) succeeds and
\* yields the same scheme, userinfo, host, port, path, query and fragment as v
C28_BuilderClosure ==
    builtValueReparsed => (u2.err = nil /\ components(u2) = components(u))

(***************************************************************************)
(* C29: the text around a bracketed host                                   *)
(***************************************************************************)

\* Parse or ParseReference has accepted an input whose authority holds a
\* bracketed host
bracketedHostAccepted ==
    /\ pc = "value"
    /\ op = "Parse"
    /\ u.err = nil
    /\ u.authority.prefix = authorityPrefix
    /\ u.authority.ipType.isIPv6

\* the ways to write an authority of userinfo, bracketed host and port
bracketedAuthorities(userinfo, host, port) ==
    { ui \o << openingBracketMark >> \o host \o << closingBracketMark >> \o pt :
          ui \in { userinfo \o << atHost >> } \cup (IF userinfo = << >> THEN { << >> } ELSE {}),
          pt \in { << colonMark >> \o port } \cup (IF port = << >> THEN { << >> } ELSE {}) }

\* C29 -- no silent discard around a bracketed host: in every accepted input
\* with a bracketed host, the authority is made of the userinfo and '@', of
\* the host between '[' and ']', and of ':' and the port, with no other text
\* before the '[' or after the ']'
C29_NoSilentDiscard ==
    bracketedHostAccepted =>
        authorityOf(u.hierPart) \in
            bracketedAuthorities(u.authority.userinfo, u.authority.host, u.authority.port)

(***************************************************************************)
(* C30: the letter case of the scheme                                      *)
(***************************************************************************)

\* the character c in lower case
lowerCase(c) ==
    IF Ord("A") <= Ord(c) /\ Ord(c) <= Ord("Z") THEN Printable[Ord(c) + 32 - 31] ELSE c

\* the text s with the letters before its first ':' in lower case
withLowerCaseScheme(s) ==
    [ i \in 1..Len(s) |-> IF i - 1 < IndexByte(s, colonMark) THEN lowerCase(s[i]) ELSE s[i] ]

\* the goroutines g and h have run Parse, without options, on two inputs that
\* differ only in the case of the letters of the scheme
parsedInBothCases(g, h) ==
    /\ calls[g].pc = "ran"
    /\ calls[h].pc = "ran"
    /\ calls[g].kind = "Parse"
    /\ calls[h].kind = "Parse"
    /\ calls[g].opts = << >>
    /\ calls[h].opts = << >>
    /\ calls[g].arg # calls[h].arg
    /\ withLowerCaseScheme(calls[g].arg) = withLowerCaseScheme(calls[h].arg)

\* C30 -- host validation does not depend on the letter case of the scheme:
\* for two inputs that differ only in the case of the scheme letters, Parse
\* accepts both or rejects both with the same error kinds
C30_SchemeCase ==
    \A g, h \in Goroutines :
        parsedInBothCases(g, h) => calls[g].result.err = calls[h].result.err
====
